---------------------------- MODULE Spec2Model ----------------------------
(***************************************************************************)
(* Model of the broker session client of sigmatrader:                      *)
(*   - WebsocketClient.dict_queue_add  (the bounded stream cache),         *)
(*   - WebsocketClient.on_message      (the message dispatcher),           *)
(*   - LoginIQOption                   (session, account-type switching).  *)
(***************************************************************************)
EXTENDS Integers, Sequences, FiniteSets, TLC

VARIABLES
    cache,                  \* api.real_time_candles[key1][key2]: per stream, key3 -> value
    maxdict,                \* the maxdict argument of dict_queue_add (fixed per run)
    lastAdd,                \* history: the last completed dict_queue_add call
    qpc, qarg, qsize, qmin, qfail,   \* per-thread position and locals of dict_queue_add
    qfresh,                 \* history: per stream, the key inserted during the other thread's call
    ssl_Mutual_exclusion,   \* global_value.ssl_Mutual_exclusion
    pc, msg, hidx,          \* per-receiver position in on_message, its message, handler index
    applied,                \* history: handlers whose effect was applied to the receiver's frame
    escaped,                \* history: an exception left on_message
    pre,                    \* history: api state and cache when on_message was entered
    api,                    \* session fields the handlers write (balance, currency, order id)
    expected,               \* history: fold of the isolated frame effects in arrival order
    login,                  \* LoginIQOption's fields
    balance_mode,           \* the account mode active at the broker
    rpc, snaps,             \* foreground _atualizar_saldo: position, snapshots seen meanwhile
    call,                   \* history: the last _selecionar_tipo_conta call
    check_websocket_if_connect,   \* global_value.check_websocket_if_connect
    check_websocket_if_error,     \* global_value.check_websocket_if_error
    info,                   \* history: the last result of obter_info_conta
    idx,                    \* executar_analise_completa: position in the list of assets
    hpc, tentativa, hret,   \* obter_dados_historicos_seguro: position, attempt, result
    fetches, reconnects,    \* history: get_candles / connect calls made by the current call
    exhausted,              \* history: a call on this session has used up its attempts
    operation,              \* the core operation a run of SpecBounded exercises
    mercado_foco,           \* listar_ativos_abertos_com_payout: the market asked for
    ativos_raw,             \* api.get_all_open_time(): per API type, the symbols marked open
    init_info,              \* api.get_all_init(): success flag, per API type the actives' names
    all_profits,            \* api.get_all_profit(): per symbol, the payouts by option type
    ativos_ordenados,       \* the list listar_ativos_abertos_com_payout returned
    payout_minimo,          \* the minimum payout asked for by the caller of the resolver
    ativos_filtrados,       \* history: what the minimum-payout filter gave
    respostas,              \* how the api answers the calls the resolver makes
    retorno,                \* history: the resolver's return kind and the requests it issued
    saldos,                 \* contas_iqoption row: the stored balance of each account type, in cents
    db_call,                \* history: the last atualizar_saldos_conta call
    perfil_sync,            \* history: the profile step of the running conectar
    solicitado,             \* the tipo_conta argument of the running conectar
    lido_em,                \* history: the broker's active mode when login.saldo was read
    gravado,                \* history: what login_iqoption stored after conectar
    houve_falha             \* history: a handler has raised while a frame was processed

cacheVars == <<cache, maxdict, lastAdd, qpc, qarg, qsize, qmin, qfail, qfresh>>
dispVars  == <<ssl_Mutual_exclusion, pc, msg, hidx, applied, escaped, pre, api, expected>>
loginVars == <<login, balance_mode, call>>
readVars  == <<rpc, snaps>>
sockVars  == <<check_websocket_if_connect, check_websocket_if_error, info>>
histVars  == <<idx, hpc, tentativa, hret, fetches, reconnects, exhausted>>
resVars   == <<mercado_foco, ativos_raw, init_info, all_profits, ativos_ordenados>>
filtVars  == <<payout_minimo, ativos_filtrados>>
apiVars   == <<respostas, retorno>>
dbVars    == <<saldos, db_call>>
contaVars == <<perfil_sync, solicitado, lido_em, gravado>>
handVars  == <<houve_falha>>
moreVars  == <<filtVars, apiVars, dbVars, contaVars, handVars>>
extVars   == <<sockVars, histVars, operation, resVars, moreVars>>
vars      == <<cacheVars, dispVars, loginVars, readVars, extVars>>

---------------------------------------------------------------------------
(* Bounds of the model *)

MaxKey  == 3        \* key3 values (candle timestamps) are 1..MaxKey
MaxDict == 2        \* maxdict is chosen in 1..MaxDict
MaxPad  == 1        \* whitespace tokens put before and after a message text
MaxAtivos == 3      \* assets in the list executar_analise_completa walks through

Keys    == 1..MaxKey
Values  == {"v1", "v2"}
Streams == {"EURUSD", "GBPUSD"}          \* one cache per (key1, key2) stream
Threads == {1, 2}                         \* callers of dict_queue_add

---------------------------------------------------------------------------
(* The bounded stream cache: WebsocketClient.dict_queue_add *)

EmptyDict == [k \in {} |-> "v1"]

Put(d, k, v) == [x \in (DOMAIN d) \cup {k} |-> IF x = k THEN v ELSE d[x]]

Remove(d, k) == [x \in (DOMAIN d) \ {k} |-> d[x]]

DicSize(d) == Cardinality(DOMAIN d)

\* line 105, with the comparison a slip would write
HasRoom_off_by_one(dic_size, max) == dic_size <= max

\* line 105: if dic_size < maxdict
HasRoom(dic_size, max) == dic_size < max

\* lines 110-111: sorted(dict[key1][key2].keys(), reverse=False)[0]
MinKey(ks) == CHOOSE k \in ks : \A j \in ks : k <= j

\* lines 100-111: the while True loop, run to its break
RECURSIVE dict_queue_loop(_, _, _, _)
dict_queue_loop(d, max, key3, value) ==
    IF HasRoom(DicSize(d), max)
    THEN Put(d, key3, value)
    ELSE dict_queue_loop(Remove(d, MinKey(DOMAIN d)), max, key3, value)

\* the loop written as insert first, then evict the lowest key while over capacity
RECURSIVE evict_after_insert(_, _)
evict_after_insert(d, max) ==
    IF DicSize(d) <= max THEN d
    ELSE evict_after_insert(Remove(d, MinKey(DOMAIN d)), max)

dict_queue_add_insert_first(d, max, key3, value) ==
    IF key3 \in DOMAIN d
    THEN [d EXCEPT ![key3] = value]
    ELSE evict_after_insert(Put(d, key3, value), max)

\* lines 96-111: dict_queue_add on the addressed cache d = dict[key1][key2]
dict_queue_add(d, max, key3, value) ==
    IF key3 \in DOMAIN d
    THEN [d EXCEPT ![key3] = value]
    ELSE dict_queue_loop(d, max, key3, value)

NoAdd == [stream |-> "none", key3 |-> 0, value |-> "v1", before |-> EmptyDict]

\* One whole call of dict_queue_add by a single caller.
DictQueueAdd(s, k, v) ==
    /\ cache' = [cache EXCEPT ![s] = dict_queue_add(cache[s], maxdict, k, v)]
    /\ lastAdd' = [stream |-> s, key3 |-> k, value |-> v, before |-> cache[s]]
    /\ UNCHANGED <<maxdict, qpc, qarg, qsize, qmin, qfail, qfresh>>
    /\ UNCHANGED <<dispVars, loginVars, readVars, extVars>>


CacheInit ==
    /\ cache = [s \in Streams |-> EmptyDict]
    /\ maxdict \in 1..MaxDict
    /\ lastAdd = NoAdd
    /\ qpc = [t \in Threads |-> "idle"]
    /\ qarg = [t \in Threads |-> [stream |-> "EURUSD", key3 |-> 1, value |-> "v1"]]
    /\ qsize = [t \in Threads |-> 0]
    /\ qmin = [t \in Threads |-> 0]
    /\ qfail = [t \in Threads |-> "none"]
    /\ qfresh = [s \in Streams |-> [key |-> 0, by |-> 0, evicted |-> FALSE]]

---------------------------------------------------------------------------
(* dict_queue_add statement by statement, for callers on two threads.      *)
(* Nothing in lines 96-111 takes a lock: each action is one access to the  *)
(* shared dict.                                                            *)

QStream(t) == qarg[t].stream

QUnchanged == UNCHANGED <<maxdict, lastAdd, dispVars, loginVars, readVars, extVars>>

\* a thread calls dict_queue_add(dict, maxdict, key1, key2, key3, value)
QCall(t, s, k, v) ==
    /\ qpc[t] = "idle"
    /\ qarg' = [qarg EXCEPT ![t] = [stream |-> s, key3 |-> k, value |-> v]]
    /\ qpc' = [qpc EXCEPT ![t] = "test"]
    /\ qfail' = [qfail EXCEPT ![t] = "none"]
    /\ qfresh' = IF qfresh[s].by = t THEN qfresh
                 ELSE [qfresh EXCEPT ![s] = [key |-> 0, by |-> 0, evicted |-> FALSE]]
    /\ UNCHANGED <<cache, qsize, qmin>>
    /\ QUnchanged

\* line 97: if key3 in dict[key1][key2]
QTest(t) ==
    /\ qpc[t] = "test"
    /\ qpc' = [qpc EXCEPT ![t] =
                 IF qarg[t].key3 \in DOMAIN cache[QStream(t)] THEN "overwrite" ELSE "len"]
    /\ UNCHANGED <<cache, qarg, qsize, qmin, qfail, qfresh>>
    /\ QUnchanged

\* line 98: dict[key1][key2][key3] = value
QOverwrite(t) ==
    /\ qpc[t] = "overwrite"
    /\ cache' = [cache EXCEPT ![QStream(t)] = Put(@, qarg[t].key3, qarg[t].value)]
    /\ qfresh' = IF qarg[t].key3 \in DOMAIN cache[QStream(t)] THEN qfresh
                 ELSE [qfresh EXCEPT ![QStream(t)] =
                          [key |-> qarg[t].key3, by |-> t, evicted |-> FALSE]]
    /\ qpc' = [qpc EXCEPT ![t] = "idle"]
    /\ UNCHANGED <<qarg, qsize, qmin, qfail>>
    /\ QUnchanged

\* lines 102-105: dic_size = len(dict[key1][key2]); if dic_size < maxdict
QLen(t) ==
    /\ qpc[t] = "len"
    /\ qsize' = [qsize EXCEPT ![t] = DicSize(cache[QStream(t)])]
    /\ qpc' = [qpc EXCEPT ![t] =
                 IF HasRoom(DicSize(cache[QStream(t)]), maxdict) THEN "insert" ELSE "pick"]
    /\ UNCHANGED <<cache, qarg, qmin, qfail, qfresh>>
    /\ QUnchanged

\* lines 106-107: dict[key1][key2][key3] = value; break
QInsert(t) ==
    /\ qpc[t] = "insert"
    /\ cache' = [cache EXCEPT ![QStream(t)] = Put(@, qarg[t].key3, qarg[t].value)]
    /\ qfresh' = [qfresh EXCEPT ![QStream(t)] =
                     [key |-> qarg[t].key3, by |-> t, evicted |-> FALSE]]
    /\ qpc' = [qpc EXCEPT ![t] = "idle"]
    /\ UNCHANGED <<qarg, qsize, qmin, qfail>>
    /\ QUnchanged

\* lines 110-111, the subscript: sorted(dict[key1][key2].keys(), reverse=False)[0]
\* (IndexError on an empty dict)
QPick(t) ==
    /\ qpc[t] = "pick"
    /\ IF DOMAIN cache[QStream(t)] = {}
       THEN /\ qfail' = [qfail EXCEPT ![t] = "IndexError"]
            /\ qpc' = [qpc EXCEPT ![t] = "idle"]
            /\ UNCHANGED qmin
       ELSE /\ qmin' = [qmin EXCEPT ![t] = MinKey(DOMAIN cache[QStream(t)])]
            /\ qpc' = [qpc EXCEPT ![t] = "del"]
            /\ UNCHANGED qfail
    /\ UNCHANGED <<cache, qarg, qsize, qfresh>>
    /\ QUnchanged

\* line 110, the del statement (KeyError when the key is gone), then loop
QDel(t) ==
    /\ qpc[t] = "del"
    /\ IF qmin[t] \in DOMAIN cache[QStream(t)]
       THEN /\ cache' = [cache EXCEPT ![QStream(t)] = Remove(@, qmin[t])]
            /\ qfresh' = IF qfresh[QStream(t)].key = qmin[t] /\ qfresh[QStream(t)].by \notin {0, t}
                         THEN [qfresh EXCEPT ![QStream(t)].evicted = TRUE]
                         ELSE qfresh
            /\ qpc' = [qpc EXCEPT ![t] = "len"]
            /\ UNCHANGED qfail
       ELSE /\ qfail' = [qfail EXCEPT ![t] = "KeyError"]
            /\ qpc' = [qpc EXCEPT ![t] = "idle"]
            /\ UNCHANGED <<cache, qfresh>>
    /\ UNCHANGED <<qarg, qsize, qmin>>
    /\ QUnchanged

---------------------------------------------------------------------------
(* Inbound messages.  A text is a sequence of tokens: whitespace, the      *)
(* structural characters, a garbage character, and "members", the member   *)
(* list of a JSON object (its "name" tag and the fields of its "msg").     *)

Tok(c) == [ch |-> c, name |-> "", balance |-> "", currency |-> "", id |-> "", key3 |-> 0]

Members(n, b, c, i, k) ==
    [ch |-> "members", name |-> n, balance |-> b, currency |-> c, id |-> i, key3 |-> k]

WS == Tok(" ")

FramePayloads ==
    {Members("profile", "b1", "USD", "", 0),
     Members("profile", "b2", "BRL", "", 0),
     Members("balance-changed", "b3", "", "", 0),
     Members("order-placed-temp", "", "", "o7", 0),
     Members("unknown-tag", "b9", "EUR", "o9", 0)}
    \cup {Members("candle-generated", "", "", "", k) : k \in Keys}

\* texts without surrounding whitespace: objects, arrays, truncated and garbage texts
Cores ==
    {<<Tok("{"), p, Tok("}")>> : p \in FramePayloads}
    \cup {<<Tok("{"), WS, p, Tok("}")>> : p \in {Members("profile", "b1", "USD", "", 0)}}
    \cup {<<>>, <<Tok("x")>>, <<Tok("x"), Tok("{")>>, <<Tok("{"), Tok("x")>>,
          <<Tok("{"), Tok("}")>>, <<Tok("["), Tok("]")>>, <<Tok("["), Tok("x")>>,
          <<Tok("{"), Members("profile", "b2", "BRL", "", 0)>>}

Pad(n) == [i \in 1..n |-> WS]

Texts == {Pad(l) \o c \o Pad(r) : l \in 0..MaxPad, r \in 0..MaxPad, c \in Cores}

NoneMessage == [type |-> "None", text |-> <<>>]

\* what the websocket may hand to on_message
Messages ==
    {NoneMessage, [type |-> "bytes_invalid", text |-> <<>>], [type |-> "object", text |-> <<>>]}
    \cup {[type |-> "str", text |-> t] : t \in Texts}
    \cup {[type |-> "bytes", text |-> t] : t \in Cores}

\* well-formed frames, sent as text without padding
FrameMessages == {[type |-> "str", text |-> <<Tok("{"), p, Tok("}")>>] : p \in FramePayloads}

\* line 141: message.strip()
RECURSIVE LStrip(_)
LStrip(t) == IF t # <<>> /\ Head(t) = WS THEN LStrip(Tail(t)) ELSE t

RECURSIVE RStrip(_)
RStrip(t) == IF t # <<>> /\ t[Len(t)] = WS THEN RStrip(SubSeq(t, 1, Len(t) - 1)) ELSE t

Strip(t) == RStrip(LStrip(t))

\* line 150: message.startswith(("{", "["))
StartsWithJson(t) == t # <<>> /\ Head(t).ch \in {"{", "["}

\* lines 125-153: the checks before parsing; "json" when the text goes on to json.loads
Precheck(m) ==
    IF m.type = "None" THEN "null"
    ELSE IF m.type \in {"bytes_invalid", "object"} THEN "undecodable"
    ELSE IF Strip(m.text) = <<>> THEN "empty"
    ELSE IF ~StartsWithJson(Strip(m.text)) THEN "nonjson"
    ELSE "json"

IsWS(tok) == tok = WS

NoFrame == Members("", "", "", "", 0)

\* line 164: json.loads(message); whitespace between tokens is insignificant
JsonLoads(t) ==
    LET s == SelectSeq(t, LAMBDA tok : ~IsWS(tok)) IN
    IF Len(s) = 3 /\ s[1].ch = "{" /\ s[2].ch = "members" /\ s[3].ch = "}"
    THEN [json |-> "object", frame |-> s[2]]
    ELSE IF Len(s) = 2 /\ s[1].ch = "{" /\ s[2].ch = "}"
    THEN [json |-> "object", frame |-> NoFrame]
    ELSE IF Len(s) = 2 /\ s[1].ch = "[" /\ s[2].ch = "]"
    THEN [json |-> "array", frame |-> NoFrame]
    ELSE [json |-> "JSONDecodeError", frame |-> NoFrame]

Parsed(m) == JsonLoads(Strip(m.text))

---------------------------------------------------------------------------
(* The message dispatcher: WebsocketClient.on_message *)

Receivers == {1, 2}

\* the call list with the call of line 175 left out
HandlerList_without_profile ==
    <<"technical_indicators", "time_sync", "heartbeat", "balances", "balance_changed",
      "candles", "buy_complete", "option", "position_history", "list_info_data",
      "candle_generated_realtime", "candle_generated_v2", "commission_changed",
      "socket_option_opened", "api_option_init_all_result", "initialization_data",
      "underlying_list", "instruments", "financial_information", "position_changed",
      "option_opened", "option_closed", "top_assets_updated", "strike_list",
      "api_game_betinfo_result", "traders_mood_changed", "order_placed_temp", "order",
      "position", "positions", "order_placed_temp", "deferred_orders",
      "history_positions", "available_leverages", "order_canceled", "position_closed",
      "overnight_fee", "api_game_getoptions_result", "sold_options", "tpsl_changed",
      "auto_margin_call_changed", "digital_option_placed", "result",
      "instrument_quotes_generated", "training_balance_reset", "socket_option_closed",
      "live_deal_binary_option_placed", "live_deal_digital_option",
      "leaderboard_deals_client", "live_deal", "user_profile_client",
      "leaderboard_userinfo_deals_client", "users_availability",
      "client_price_generated">>

\* lines 171-226: the handlers on_message calls for every parsed message, in order
HandlerList ==
    <<"technical_indicators", "time_sync", "heartbeat", "balances", "profile",
      "balance_changed", "candles", "buy_complete", "option", "position_history",
      "list_info_data", "candle_generated_realtime", "candle_generated_v2",
      "commission_changed", "socket_option_opened", "api_option_init_all_result",
      "initialization_data", "underlying_list", "instruments", "financial_information",
      "position_changed", "option_opened", "option_closed", "top_assets_updated",
      "strike_list", "api_game_betinfo_result", "traders_mood_changed",
      "order_placed_temp", "order", "position", "positions", "order_placed_temp",
      "deferred_orders", "history_positions", "available_leverages", "order_canceled",
      "position_closed", "overnight_fee", "api_game_getoptions_result", "sold_options",
      "tpsl_changed", "auto_margin_call_changed", "digital_option_placed", "result",
      "instrument_quotes_generated", "training_balance_reset", "socket_option_closed",
      "live_deal_binary_option_placed", "live_deal_digital_option",
      "leaderboard_deals_client", "live_deal", "user_profile_client",
      "leaderboard_userinfo_deals_client", "users_availability", "client_price_generated">>

\* the type tag a handler reacts to (every handler tests message["name"] itself)
HandlerTag(h) ==
    CASE h = "profile" -> "profile"
      [] h = "balance_changed" -> "balance-changed"
      [] h = "order_placed_temp" -> "order-placed-temp"
      [] h = "candle_generated_realtime" -> "candle-generated"
      [] OTHER -> h

KnownTags == {HandlerTag(HandlerList[i]) : i \in 1..Len(HandlerList)}

\* what one handler call does with a parsed message: raise, apply its effect, or nothing
HandlerOutcome(h, parsed) ==
    IF parsed.json = "array" THEN "TypeError"
    ELSE IF parsed.frame.name = "" THEN "KeyError"
    ELSE IF HandlerTag(h) = parsed.frame.name THEN "apply"
    ELSE "skip"

CandleStream == "EURUSD"

\* the effect of one frame on the session state st = [api, cache], by its type tag
FrameEffect(f, st, max) ==
    CASE f.name = "profile" ->
           [st EXCEPT !.api.balance = f.balance, !.api.currency = f.currency]
      [] f.name = "balance-changed" ->
           [st EXCEPT !.api.balance = f.balance]
      [] f.name = "order-placed-temp" ->
           [st EXCEPT !.api.buy_order_id = f.id]
      [] f.name = "candle-generated" ->
           [st EXCEPT !.cache[CandleStream] = dict_queue_add(@, max, f.key3, "v1")]
      [] OTHER -> st

\* the except clauses with the last one missing
Caught_without_catch_all(exc) == exc \in {"JSONDecodeError", "KeyError"}

\* lines 228-238: except json.JSONDecodeError / except KeyError / except Exception
Caught(exc) == exc \in {"JSONDecodeError", "KeyError", "TypeError", "Exception"}

State == [api |-> api, cache |-> cache]

\* the isolated effect of a message: that of its frame when it is a valid frame
IsolatedEffect(m, st, max) ==
    IF Precheck(m) = "json" /\ Parsed(m).json = "object"
    THEN FrameEffect(Parsed(m).frame, st, max)
    ELSE st

\* indexes of the handler calls, from i on, that do not skip the message
ActiveFrom(i, parsed) ==
    {j \in i..Len(HandlerList) : HandlerOutcome(HandlerList[j], parsed) # "skip"}

Min(S) == CHOOSE x \in S : \A y \in S : x <= y

\* the session fields before the first frame
DispInitApi == [balance |-> "None", currency |-> "None", buy_order_id |-> "None"]

DispInit ==
    /\ ssl_Mutual_exclusion = FALSE
    /\ pc = [r \in Receivers |-> "idle"]
    /\ msg = [r \in Receivers |-> NoneMessage]
    /\ hidx = [r \in Receivers |-> 0]
    /\ applied = [r \in Receivers |-> <<>>]
    /\ escaped = [r \in Receivers |-> FALSE]
    /\ api = DispInitApi
    /\ pre = [r \in Receivers |-> [api |-> api, cache |-> cache]]
    /\ expected = [api |-> api, cache |-> cache]

DUnchanged ==
    UNCHANGED <<maxdict, lastAdd, qpc, qarg, qsize, qmin, qfail, qfresh, loginVars, rpc,
                extVars>>

\* line 121: on_message is entered with message m
OnMessageEnter(r, m) ==
    /\ pc[r] = "idle"
    /\ ssl_Mutual_exclusion' = TRUE
    /\ pc' = [pc EXCEPT ![r] = "checks"]
    /\ msg' = [msg EXCEPT ![r] = m]
    /\ pre' = [pre EXCEPT ![r] = State]
    /\ expected' = IsolatedEffect(m, expected, maxdict)
    /\ UNCHANGED <<hidx, applied, escaped, api, cache, snaps>>
    /\ DUnchanged

\* the early returns with the one of lines 150-153 leaving the flag set
FlagNoRetorno_nonjson_preso(kind) == kind = "nonjson"

\* lines 127, 137, 145 and 152: the flag is cleared before each early return
FlagNoRetorno(kind) == FALSE

\* lines 125-153: one of the four early returns
OnMessageReject(r) ==
    /\ pc[r] = "checks"
    /\ Precheck(msg[r]) # "json"
    /\ ssl_Mutual_exclusion' = FlagNoRetorno(Precheck(msg[r]))
    /\ pc' = [pc EXCEPT ![r] = "returned"]
    /\ UNCHANGED <<msg, hidx, applied, escaped, pre, api, expected, cache, snaps>>
    /\ DUnchanged

\* an exception exc raised inside the try block of lines 162-238
Raise(r, exc) ==
    IF Caught(exc)
    THEN /\ pc' = [pc EXCEPT ![r] = "release"]
         /\ UNCHANGED escaped
    ELSE /\ pc' = [pc EXCEPT ![r] = "returned"]
         /\ escaped' = [escaped EXCEPT ![r] = TRUE]

\* lines 162-168: json.loads
OnMessageParse(r) ==
    /\ pc[r] = "checks"
    /\ Precheck(msg[r]) = "json"
    /\ IF Parsed(msg[r]).json = "JSONDecodeError"
       THEN /\ Raise(r, "JSONDecodeError")
            /\ UNCHANGED hidx
       ELSE /\ pc' = [pc EXCEPT ![r] = "handlers"]
            /\ hidx' = [hidx EXCEPT ![r] = 1]
            /\ UNCHANGED escaped
    /\ UNCHANGED <<ssl_Mutual_exclusion, msg, applied, pre, api, expected, cache, snaps>>
    /\ DUnchanged

\* lines 171-226: run the handler calls up to and including the next one that does
\* not skip the message (a skipping handler reads only its argument)
OnMessageHandler(r) ==
    /\ pc[r] = "handlers"
    /\ ActiveFrom(hidx[r], Parsed(msg[r])) # {}
    /\ LET j == Min(ActiveFrom(hidx[r], Parsed(msg[r])))
           h == HandlerList[j]
           out == HandlerOutcome(h, Parsed(msg[r]))
           st == FrameEffect(Parsed(msg[r]).frame, State, maxdict)
       IN IF out = "apply"
          THEN /\ api' = st.api
               /\ cache' = st.cache
               /\ applied' = [applied EXCEPT ![r] = Append(@, h)]
               /\ hidx' = [hidx EXCEPT ![r] = j + 1]
               /\ snaps' = IF rpc = "idle" THEN snaps
                            ELSE snaps \cup {<<st.api.balance, st.api.currency>>}
               /\ UNCHANGED <<pc, escaped>>
          ELSE /\ Raise(r, out)
               /\ UNCHANGED <<api, cache, applied, hidx, snaps>>
    /\ UNCHANGED <<ssl_Mutual_exclusion, msg, pre, expected>>
    /\ DUnchanged

\* each handler call guarded on its own: after a failure at call j the next is j + 1
RetomaEm_proximo(j) == j + 1

\* lines 162-238: the handler calls share one try block, so an exception at call j
\* leaves the block and no call after j is made
RetomaEm(j) == Len(HandlerList) + 1

\* lines 171-238: the next handler call that does not skip the message raises an
\* Exception instead of applying its effect; the call is recorded as "raised"
OnMessageHandlerFalha(r) ==
    /\ pc[r] = "handlers"
    /\ ActiveFrom(hidx[r], Parsed(msg[r])) # {}
    /\ LET j == Min(ActiveFrom(hidx[r], Parsed(msg[r])))
       IN /\ HandlerOutcome(HandlerList[j], Parsed(msg[r])) = "apply"
          /\ applied' = [applied EXCEPT ![r] = Append(@, "raised")]
          /\ IF RetomaEm(j) > Len(HandlerList)
             THEN /\ Raise(r, "Exception")
                  /\ UNCHANGED hidx
             ELSE /\ hidx' = [hidx EXCEPT ![r] = RetomaEm(j)]
                  /\ UNCHANGED <<pc, escaped>>
    /\ houve_falha' = TRUE
    /\ UNCHANGED <<ssl_Mutual_exclusion, msg, pre, expected, api, cache, snaps>>
    /\ UNCHANGED <<maxdict, lastAdd, qpc, qarg, qsize, qmin, qfail, qfresh, loginVars, rpc,
                   sockVars, histVars, operation, resVars, filtVars, apiVars, dbVars,
                   contaVars>>

\* line 240, after the last handler call or after an except clause
OnMessageReturn(r) ==
    /\ \/ pc[r] = "release"
       \/ pc[r] = "handlers" /\ ActiveFrom(hidx[r], Parsed(msg[r])) = {}
    /\ ssl_Mutual_exclusion' = FALSE
    /\ pc' = [pc EXCEPT ![r] = "returned"]
    /\ UNCHANGED <<msg, hidx, applied, escaped, pre, api, expected, cache, snaps>>
    /\ DUnchanged

\* the websocket loop goes on to read the next message: the record of the finished
\* call is dropped
OnMessageNext(r) ==
    /\ pc[r] = "returned"
    /\ pc' = [pc EXCEPT ![r] = "idle"]
    /\ msg' = [msg EXCEPT ![r] = NoneMessage]
    /\ hidx' = [hidx EXCEPT ![r] = 0]
    /\ applied' = [applied EXCEPT ![r] = <<>>]
    /\ escaped' = [escaped EXCEPT ![r] = FALSE]
    /\ pre' = [pre EXCEPT ![r] = [api |-> DispInitApi, cache |-> [s \in Streams |-> EmptyDict]]]
    /\ UNCHANGED <<ssl_Mutual_exclusion, api, expected, cache, snaps>>
    /\ DUnchanged

---------------------------------------------------------------------------
(* The session: LoginIQOption *)

TipoNames == {"REAL", "TREINAMENTO", "TORNEIO"}

\* lines 18-22: TIPO_CONTA
TIPO_CONTA(t) ==
    CASE t = "REAL" -> "REAL"
      [] t = "TREINAMENTO" -> "PRACTICE"
      [] t = "TORNEIO" -> "TOURNAMENT"

Modes == {"REAL", "PRACTICE", "TOURNAMENT"}

\* the tipo_conta arguments: the three names, a lower-case name, an unknown name, a non-string
TipoInputs == TipoNames \cup {"real", "OUTRO", "non-str"}

\* str.upper() on the arguments of the model
Upper(t) == IF t = "real" THEN "REAL" ELSE t

\* lines 58 and 152: tipo_conta.upper() if isinstance(tipo_conta, str) else "TREINAMENTO"
Normaliza(t) == IF t = "non-str" THEN "TREINAMENTO" ELSE Upper(t)

\* line 153: TIPO_CONTA.get(tipo_conta_alvo, "PRACTICE")
CodigoTipo(alvo) == IF alvo \in TipoNames THEN TIPO_CONTA(alvo) ELSE "PRACTICE"

\* line 158 comparing the mode with the name instead of its code
JaNaConta_by_name(current_mode_api, alvo) == current_mode_api = alvo

\* line 158: current_mode_api == codigo_tipo_alvo
JaNaConta(current_mode_api, alvo) == current_mode_api = CodigoTipo(alvo)

\* lines 27-37: the fields after construction
LoginNovo ==
    [api |-> FALSE, conectado |-> FALSE, tipo_conta |-> "None",
     saldo |-> "0.0", moeda |-> "None", ultimo_erro |-> "None"]

\* results of api.get_balance() and api.get_currency(): a value, None, or an exception
BalanceResults  == {"b1", "None", "raise"}
CurrencyResults == {"USD", "None", "raise"}
\* api.get_balance_mode(): the active mode is returned, or the call raises
ModeResults     == {"ok", "raise"}
\* api.change_balance(code): raises, is refused, is accepted and the active mode
\* changes, or is accepted while the active mode stays what it was
ChangeResults   == {"raise", "reject", "accept", "accept_unchanged"}

\* lines 198-220: _atualizar_saldo, given what the two reads give
atualizar_saldo(L, balRes, curRes) ==
    IF ~L.conectado \/ ~L.api
    THEN [login |-> L, ret |-> FALSE]
    ELSE IF balRes = "raise" \/ curRes = "raise"
    THEN [login |-> [L EXCEPT !.saldo = "0.0", !.moeda = "None"], ret |-> FALSE]
    ELSE [login |-> [L EXCEPT !.saldo = balRes, !.moeda = curRes],
          ret |-> (balRes # "None" /\ curRes # "None")]

\* lines 168-196: the change_balance request and what follows it
mudar_conta(L, mode, alvo, chgRes, balRes, curRes) ==
    IF chgRes \in {"raise", "reject"}
    THEN [login |-> L, mode |-> mode, ret |-> FALSE, requests |-> 1, refreshes |-> 0]
    ELSE LET r == atualizar_saldo(L, balRes, curRes)
             m == IF chgRes = "accept" THEN CodigoTipo(alvo) ELSE mode
         IN IF r.ret
            THEN [login |-> [r.login EXCEPT !.tipo_conta = alvo],
                  mode |-> m, ret |-> TRUE, requests |-> 1, refreshes |-> 1]
            ELSE [login |-> [r.login EXCEPT !.tipo_conta = "None"],
                  mode |-> m, ret |-> FALSE, requests |-> 1, refreshes |-> 1]

\* lines 137-196: _selecionar_tipo_conta; mode is the mode active at the broker
selecionar_tipo_conta(L, mode, tipo, modeRes, chgRes, balRes, curRes) ==
    IF ~L.conectado \/ ~L.api
    THEN [login |-> L, mode |-> mode, ret |-> FALSE, requests |-> 0, refreshes |-> 0]
    ELSE LET alvo == Normaliza(tipo) IN
         IF modeRes = "ok" /\ JaNaConta(mode, alvo)
         THEN LET r == atualizar_saldo(L, balRes, curRes) IN
              IF r.ret
              THEN [login |-> [r.login EXCEPT !.tipo_conta = alvo],
                    mode |-> mode, ret |-> TRUE, requests |-> 0, refreshes |-> 1]
              ELSE [login |-> r.login, mode |-> mode, ret |-> FALSE, requests |-> 0,
                    refreshes |-> 1]
         ELSE mudar_conta(L, mode, alvo, chgRes, balRes, curRes)

\* lines 112-113: the name of the active mode
NomeDoModo(mode) == CHOOSE n \in TipoNames : TIPO_CONTA(n) = mode

\* results of api.connect(): (True, None) or (False, motivo)
ConnectFailures ==
    {"Falha na conexao de rede", "2FA", "invalid_credentials", "outro motivo", "non-str"}

\* line 129: f"Falha na conexao: {motivo}"
FalhaNaConexao(motivo) ==
    CASE motivo = "invalid_credentials" -> "Falha na conexao: invalid_credentials"
      [] motivo = "outro motivo" -> "Falha na conexao: outro motivo"
      [] OTHER -> "Falha na conexao: "

\* lines 119-132 with line 129 recording the same text whatever the motivo
ErroDeConexao_sem_motivo(motivo) ==
    IF motivo = "non-str" THEN "Falha na conexao com motivo desconhecido."
    ELSE "Falha na conexao: "

\* lines 119-132: the error recorded for a failed connect
ErroDeConexao(motivo) ==
    IF motivo = "non-str" THEN "Falha na conexao com motivo desconhecido."
    ELSE IF motivo = "Falha na conexao de rede" THEN motivo
    ELSE IF motivo = "2FA" THEN "Autenticacao de dois fatores solicitada."
    ELSE FalhaNaConexao(motivo)

\* the record kept of a _selecionar_tipo_conta call
CallRecord(L, mode, tipo, modeRes, chgRes, r) ==
    [alvo |-> Normaliza(tipo),
     mode_read |-> IF ~L.conectado \/ ~L.api THEN "none"
                   ELSE IF modeRes = "ok" THEN mode ELSE "raise",
     chg |-> IF r.requests = 1 THEN chgRes ELSE "none",
     requests |-> r.requests, refreshes |-> r.refreshes, ret |-> r.ret,
     tipo_before |-> L.tipo_conta, tipo_after |-> r.login.tipo_conta,
     mode_after |-> r.mode, pending |-> FALSE,
     saldo_before |-> L.saldo, moeda_before |-> L.moeda,
     bal |-> "none", cur |-> "none", op |-> "select", motivo |-> "none",
     retorno_conectar |-> "none"]

NoCall ==
    [alvo |-> "none", mode_read |-> "none", chg |-> "none", requests |-> 0,
     refreshes |-> 0, ret |-> FALSE,
     tipo_before |-> "None", tipo_after |-> "None", mode_after |-> "none",
     pending |-> FALSE, saldo_before |-> "0.0", moeda_before |-> "None",
     bal |-> "none", cur |-> "none", op |-> "none", motivo |-> "none",
     retorno_conectar |-> "none"]

LoginInit ==
    /\ login = LoginNovo
    /\ balance_mode = "PRACTICE"
    /\ call = NoCall
    /\ rpc = "idle"
    /\ snaps = {}

LUnchanged == UNCHANGED <<cacheVars, dispVars, readVars, extVars>>

\* the columns saldo_real, saldo_treinamento, saldo_torneio (database.py 176-178)
Colunas == {"REAL", "TREINAMENTO", "TORNEIO"}

\* values of the tipo_atual argument: the three types, a lower-case spelling, None,
\* and the broker's own name of the practice account
TipoArgs == {"REAL", "real", "TREINAMENTO", "TORNEIO", "None", "PRACTICE"}

\* database.py line 333: tipo_atual.upper() if tipo_atual else "TREINAMENTO"
TipoNormalizado(t) == IF t = "None" THEN "TREINAMENTO" ELSE Upper(t)

\* database.py lines 347-355, with an unknown type rejected instead of stored
ColunaDoTipo_rejeita(t) ==
    IF TipoNormalizado(t) \in Colunas THEN TipoNormalizado(t) ELSE "none"

\* database.py lines 347-355: the column the new balance is written to
ColunaDoTipo(t) ==
    IF TipoNormalizado(t) \in Colunas THEN TipoNormalizado(t) ELSE "TREINAMENTO"

NoPerfil == [res |-> "none", attempts |-> 0, escaped |-> FALSE]

NoGravado == [k |-> "none", tipo |-> "none", coluna |-> "none", saldo |-> "none",
              lido_em |-> "none"]

ContaNone ==
    /\ perfil_sync = NoPerfil
    /\ solicitado = "none"
    /\ lido_em = "none"
    /\ gravado = NoGravado

\* what conectar and login_iqoption leave alone
LUnchangedConta == UNCHANGED <<cacheVars, dispVars, readVars, sockVars, histVars, operation,
                               resVars, filtVars, apiVars, dbVars, handVars>>

\* the profile step of lines 75-98: skipped (conta_id_db is None), the profile is read
\* and stored, the store returns False or raises, get_profile_ansyc returns None or
\* something that is not a dict, or get_profile_ansyc raises
PerfilResults ==
    {"skipped", "ok", "persist False", "persist raise", "None", "invalid", "get raise"}

\* lines 78-96 without the try: an exception of the profile step leaves conectar
PerfilEscapa_sem_try(perfil) == perfil \in {"get raise", "persist raise"}

\* lines 78-96: the try/except Exception around the profile step lets nothing out
PerfilEscapa(perfil) == FALSE

\* conectar returning True only when the account selection succeeded
RetornoConectar_se_selecionou(status, selecionou) ==
    IF status /\ selecionou THEN "True" ELSE "False"

\* lines 70, 117 and 135: conectar returns True when api.connect() gave a true status,
\* whatever the account selection gave, and False otherwise
RetornoConectar(status, selecionou) == IF status THEN "True" ELSE "False"

\* the mode active at the broker when the balance now in L.saldo was read, given the
\* two reads of a refresh made while mode was active; "none" when the refresh zeroed it
LidoEm(mode, balRes, curRes) ==
    IF balRes = "raise" \/ curRes = "raise" THEN "none" ELSE mode

\* lines 118-135: conectar when api.connect() reports failure
ConectarFalha(motivo) ==
    /\ call = NoCall
    /\ login' = [login EXCEPT !.api = TRUE, !.conectado = FALSE,
                              !.ultimo_erro = ErroDeConexao(motivo)]
    /\ call' = [NoCall EXCEPT !.alvo = "connect failed", !.op = "conectar",
                              !.motivo = motivo,
                              !.retorno_conectar = RetornoConectar(FALSE, FALSE)]
    /\ UNCHANGED balance_mode
    /\ LUnchanged

\* lines 52-68: conectar when api.connect() raises: the call at line 68 is outside any
\* try, so the exception leaves conectar after lines 53 and 64 have run
ConectarRaise ==
    /\ call = NoCall
    /\ login' = [login EXCEPT !.api = TRUE, !.ultimo_erro = "None"]
    /\ call' = [NoCall EXCEPT !.alvo = "exception", !.op = "conectar"]
    /\ UNCHANGED balance_mode
    /\ LUnchanged

\* lines 52-106: conectar when api.connect() reports success; tipo is normalised
\* (lines 58-61) and the account is selected; when the selection fails conectar goes
\* on with lines 107-114 (ConectarVerifica)
ConectarOk(tipo, perfil, modeRes, chgRes, balRes, curRes) ==
    LET desejado == IF Normaliza(tipo) \in TipoNames THEN Normaliza(tipo) ELSE "TREINAMENTO"
        L0 == [login EXCEPT !.api = TRUE, !.conectado = TRUE, !.ultimo_erro = "None"]
        r == selecionar_tipo_conta(L0, balance_mode, desejado, modeRes, chgRes, balRes, curRes)
    IN /\ call = NoCall
       /\ perfil_sync' = [res |-> perfil,
                          attempts |-> IF perfil = "skipped" THEN 0 ELSE 1,
                          escaped |-> PerfilEscapa(perfil)]
       /\ solicitado' = tipo
       /\ IF PerfilEscapa(perfil)
          THEN /\ login' = L0
               /\ balance_mode' = balance_mode
               /\ call' = [NoCall EXCEPT !.alvo = "exception", !.op = "conectar"]
               /\ lido_em' = "none"
          ELSE /\ login' = r.login
               /\ balance_mode' = r.mode
               /\ call' = [CallRecord(L0, balance_mode, desejado, modeRes, chgRes, r)
                              EXCEPT !.pending = ~r.ret, !.op = "conectar",
                                     !.retorno_conectar =
                                         IF r.ret THEN RetornoConectar(TRUE, TRUE)
                                         ELSE "none"]
               /\ lido_em' = IF r.refreshes = 1 THEN LidoEm(r.mode, balRes, curRes)
                             ELSE "none"
       /\ UNCHANGED gravado
       /\ LUnchangedConta

\* lines 107-114: after a failed selection conectar refreshes the balance of the
\* active account and takes the name of the active mode as the session's type
ConectarVerifica(modeRes2, balRes2, curRes2) ==
    LET L1 == atualizar_saldo(login, balRes2, curRes2).login
    IN /\ call.pending
       /\ login' = IF modeRes2 = "ok"
                   THEN [L1 EXCEPT !.tipo_conta = NomeDoModo(balance_mode)]
                   ELSE L1
       /\ call' = [call EXCEPT !.pending = FALSE,
                               !.retorno_conectar = RetornoConectar(TRUE, FALSE)]
       /\ lido_em' = LidoEm(balance_mode, balRes2, curRes2)
       /\ UNCHANGED <<balance_mode, perfil_sync, solicitado, gravado>>
       /\ LUnchangedConta

\* app.py line 237: tipo_ativo_real or tipo_conta_selecionado; a tipo_conta that is
\* not a string stands for None
TipoParaDb(tipo_ativo_real, tipo_conta_selecionado) ==
    IF tipo_ativo_real # "None" THEN tipo_ativo_real
    ELSE IF tipo_conta_selecionado = "non-str" THEN "None"
    ELSE tipo_conta_selecionado

\* app.py lines 226-241: conectar returned True; login_iqoption reads the session's
\* info and stores its balance under tipo_para_db (database.py 323-387); ativa is
\* whether the account row is found and written
LoginIqoption(ativa) ==
    LET tipo_para_db == TipoParaDb(login.tipo_conta, solicitado)
    IN /\ call.op = "conectar"
       /\ ~call.pending
       /\ call.retorno_conectar = "True"
       /\ gravado = NoGravado
       /\ gravado' = [k |-> IF ativa THEN "stored" ELSE "not stored",
                      tipo |-> tipo_para_db,
                      coluna |-> ColunaDoTipo(tipo_para_db),
                      saldo |-> IF login.saldo = "None" THEN "0.0" ELSE login.saldo,
                      lido_em |-> lido_em]
       /\ UNCHANGED <<loginVars, perfil_sync, solicitado, lido_em>>
       /\ LUnchangedConta

\* app.py lines 224 and 241-257: login_iqoption returns; its next call builds a new
\* LoginIQOption (lines 27-37), while the broker keeps its active mode
LoginRetorna ==
    /\ call.op = "conectar"
    /\ ~call.pending
    /\ call.retorno_conectar = "True" => gravado # NoGravado
    /\ login' = LoginNovo
    /\ call' = NoCall
    /\ perfil_sync' = NoPerfil
    /\ solicitado' = "none"
    /\ lido_em' = "none"
    /\ gravado' = NoGravado
    /\ UNCHANGED balance_mode
    /\ LUnchangedConta

\* a call of _selecionar_tipo_conta(tipo) on the session
SelecionarTipoConta(tipo, modeRes, chgRes, balRes, curRes) ==
    LET r == selecionar_tipo_conta(login, balance_mode, tipo, modeRes, chgRes, balRes, curRes)
    IN /\ call = NoCall
       /\ login' = r.login
       /\ balance_mode' = r.mode
       /\ call' = CallRecord(login, balance_mode, tipo, modeRes, chgRes, r)
       /\ LUnchanged

\* a call of _atualizar_saldo() on the session; the record keeps what each read gave
\* ("not called" for get_currency when get_balance raised) and the values held before
AtualizarSaldo(balRes, curRes) ==
    LET r == atualizar_saldo(login, balRes, curRes)
    IN /\ call = NoCall
       /\ login' = r.login
       /\ call' = [NoCall EXCEPT !.alvo = "refresh", !.op = "refresh", !.ret = r.ret,
                                 !.bal = IF login.conectado /\ login.api
                                         THEN balRes ELSE "none",
                                 !.cur = IF login.conectado /\ login.api /\ balRes # "raise"
                                         THEN curRes ELSE "none",
                                 !.tipo_before = login.tipo_conta,
                                 !.tipo_after = login.tipo_conta,
                                 !.saldo_before = login.saldo,
                                 !.moeda_before = login.moeda]
       /\ UNCHANGED balance_mode
       /\ LUnchanged

\* the caller takes the result: the record of the finished call is dropped
Retorna ==
    /\ call # NoCall
    /\ ~call.pending
    /\ call' = NoCall
    /\ perfil_sync' = NoPerfil
    /\ solicitado' = "none"
    /\ lido_em' = "none"
    /\ gravado' = NoGravado
    /\ UNCHANGED <<login, balance_mode>>
    /\ LUnchangedConta

---------------------------------------------------------------------------
(* _atualizar_saldo on the foreground thread, read by read, while the      *)
(* receiver thread dispatches frames: lines 209 and 210 are two separate   *)
(* reads of the session state the handlers write.                          *)

RUnchanged == UNCHANGED <<cacheVars, dispVars, balance_mode, call, extVars>>

\* lines 203-208: the call starts (it returns at once when not connected)
RefreshStart ==
    /\ rpc = "idle"
    /\ login.conectado /\ login.api
    /\ rpc' = "get_balance"
    /\ snaps' = {<<api.balance, api.currency>>}
    /\ UNCHANGED login
    /\ RUnchanged

\* line 209: self.saldo = self.api.get_balance()
RefreshGetBalance ==
    /\ rpc = "get_balance"
    /\ login' = [login EXCEPT !.saldo = api.balance]
    /\ rpc' = "get_currency"
    /\ UNCHANGED snaps
    /\ RUnchanged

\* lines 210-215: self.moeda = self.api.get_currency(), and the result
RefreshGetCurrency ==
    /\ rpc = "get_currency"
    /\ login' = atualizar_saldo(login, login.saldo, api.currency).login
    /\ rpc' = "done"
    /\ UNCHANGED snaps
    /\ RUnchanged

\* the caller takes the result
RefreshReturn ==
    /\ rpc = "done"
    /\ rpc' = "idle"
    /\ UNCHANGED <<login, snaps>>
    /\ RUnchanged

---------------------------------------------------------------------------
(* The resolver: listar_ativos_abertos_com_payout (ativos.py)               *)

\* the symbols of the model, in ascending order of their names
SymbolsSorted == <<"EURUSD", "EURUSD-OTC", "GBPUSD">>
Symbols == {SymbolsSorted[i] : i \in DOMAIN SymbolsSorted}
SymbolRank(sym) == CHOOSE i \in DOMAIN SymbolsSorted : SymbolsSorted[i] = sym

\* line 209: "-OTC" in item[0]
IsOTC(sym) == sym \in {"EURUSD-OTC"}

\* lines 24-29: MERCADO_PARA_TIPOS_API.get(mercado_foco), None for an unknown market
MERCADO_PARA_TIPOS_API(mercado) ==
    CASE mercado = "Digital" -> <<"digital">>
      [] mercado = "Binario/Turbo" -> <<"binary", "turbo">>
      [] mercado = "Forex" -> <<"forex">>
      [] mercado = "Cripto" -> <<"crypto">>
      [] OTHER -> <<>>

Mercados == {"Digital", "Binario/Turbo", "Forex", "Outro"}
ApiTypes == {"digital", "binary", "turbo", "forex", "crypto"}
TypesOf(mercado) ==
    {MERCADO_PARA_TIPOS_API(mercado)[i] : i \in DOMAIN MERCADO_PARA_TIPOS_API(mercado)}

\* an optional number: absent from its dict, None, or a value
Absent == [k |-> "absent", v |-> 0]
None   == [k |-> "None", v |-> 0]
Num(n) == [k |-> "num", v |-> n]

\* payout entries of get_all_profit(), as decimals in thousandths (0.87 is 870)
PayoutInfos ==
    {[turbo |-> Absent, binary |-> Absent],
     [turbo |-> Num(870), binary |-> Absent],
     [turbo |-> Absent, binary |-> Num(850)],
     [turbo |-> Num(850), binary |-> Num(870)]}

\* line 125: the name of an active as get_all_init() gives it, split at the dots
NomeDoAtivo(sym) == <<"front", sym>>
\* line 125: ativo_data.get("name", "").split(".")[-1]
NomeCurto(name) == name[Len(name)]

\* line 139: int(round(payout_dec * 100)), payout_dec in thousandths; round() rounds
\* halves to the even neighbour
RoundPerc(pm) ==
    LET q == pm \div 10
        r == pm % 10
    IN IF r > 5 \/ (r = 5 /\ q % 2 = 1) THEN q + 1 ELSE q

\* lines 135-139: the payout attached to an open symbol
PayoutPerc(profits, sym) ==
    IF sym \notin DOMAIN profits THEN None
    ELSE LET payout_info == profits[sym]
             payout_dec == IF payout_info.turbo.k # "absent" THEN payout_info.turbo
                           ELSE IF payout_info.binary.k # "absent" THEN payout_info.binary
                           ELSE None
         IN IF payout_dec.k = "num" THEN Num(RoundPerc(payout_dec.v)) ELSE None

\* lines 129-132: the symbol is marked open under this API type
IsOpen(raw, tipo_api, sym) == tipo_api \in DOMAIN raw /\ sym \in raw[tipo_api]

\* line 126 without the test of ativos_abertos_set
JaListado_nunca(sym, lista) == FALSE

\* line 126: ativo_nome_curto in ativos_abertos_set (the symbols appended so far)
JaListado(sym, lista) == \E i \in DOMAIN lista : lista[i].nome = sym

\* the actives of one API type as a list, in the order their dict is walked
RECURSIVE ActivesList(_, _)
ActivesList(names, i) ==
    IF i > Len(SymbolsSorted) THEN <<>>
    ELSE (IF NomeDoAtivo(SymbolsSorted[i]) \in names
          THEN <<NomeDoAtivo(SymbolsSorted[i])>> ELSE <<>>) \o ActivesList(names, i + 1)

\* lines 124-143: the loop over the actives of one API type
RECURSIVE ProcessaActives(_, _, _, _, _)
ProcessaActives(actives, tipo_api, raw, profits, lista) ==
    IF actives = <<>> THEN lista
    ELSE LET ativo_nome_curto == NomeCurto(Head(actives))
             nova == IF JaListado(ativo_nome_curto, lista) THEN lista
                     ELSE IF IsOpen(raw, tipo_api, ativo_nome_curto)
                     THEN Append(lista, [nome |-> ativo_nome_curto,
                                         payout |-> PayoutPerc(profits, ativo_nome_curto)])
                     ELSE lista
         IN ProcessaActives(Tail(actives), tipo_api, raw, profits, nova)

\* lines 122-143: the loop over the API types of the market
RECURSIVE ProcessaTipos(_, _, _, _, _)
ProcessaTipos(tipos, init, raw, profits, lista) ==
    IF tipos = <<>> THEN lista
    ELSE ProcessaTipos(Tail(tipos), init, raw, profits,
            IF Head(tipos) \in DOMAIN init.result
            THEN ProcessaActives(ActivesList(init.result[Head(tipos)], 1),
                                 Head(tipos), raw, profits, lista)
            ELSE lista)

\* lines 151-157 and 163-170: the open symbols of the market's API types, each once,
\* in ascending order, with payout None
RECURSIVE NomesAbertos(_, _, _)
NomesAbertos(raw, tipos, i) ==
    IF i > Len(SymbolsSorted) THEN <<>>
    ELSE (IF \E t \in tipos : IsOpen(raw, t, SymbolsSorted[i])
          THEN <<[nome |-> SymbolsSorted[i], payout |-> None]>> ELSE <<>>)
         \o NomesAbertos(raw, tipos, i + 1)

\* lines 205-212: the sort key (-(payout or -1), OTC flag, name)
SortKey(item) ==
    <<-(IF item.payout.k = "num" THEN item.payout.v ELSE -1),
      IF IsOTC(item.nome) THEN 1 ELSE 0,
      SymbolRank(item.nome)>>

\* tuple comparison with the OTC flag compared before the payout
KeyLess_otc_first(a, b) ==
    \/ a[2] < b[2]
    \/ a[2] = b[2] /\ a[1] < b[1]
    \/ a[2] = b[2] /\ a[1] = b[1] /\ a[3] < b[3]

\* tuple comparison of two sort keys
KeyLess(a, b) ==
    \/ a[1] < b[1]
    \/ a[1] = b[1] /\ a[2] < b[2]
    \/ a[1] = b[1] /\ a[2] = b[2] /\ a[3] < b[3]

\* sorted(): a stable sort, here by insertion
RECURSIVE Insert(_, _)
Insert(item, sorted) ==
    IF sorted = <<>> THEN <<item>>
    ELSE IF KeyLess(SortKey(item), SortKey(Head(sorted)))
    THEN <<item>> \o sorted
    ELSE <<Head(sorted)>> \o Insert(item, Tail(sorted))

RECURSIVE Sorted(_)
Sorted(lista) ==
    IF lista = <<>> THEN <<>>
    ELSE Insert(lista[Len(lista)], Sorted(SubSeq(lista, 1, Len(lista) - 1)))

\* lines 63-219 for a connected api: the list returned
listar_ativos_abertos_com_payout(mercado, raw, init, profits) ==
    LET tipos_api_considerar == MERCADO_PARA_TIPOS_API(mercado)
        ativos_com_detalhes ==
            IF mercado = "Binario/Turbo" /\ init.isSuccessful
            THEN ProcessaTipos(tipos_api_considerar, init, raw, profits, <<>>)
            ELSE NomesAbertos(raw, TypesOf(mercado), 1)
    IN IF tipos_api_considerar = <<>> THEN <<>>
       ELSE Sorted(ativos_com_detalhes)

\* app.py lines 301-312 (exibir_ativos_abertos): the filter by minimum payout
FiltrarExibir(ativos, minimo) ==
    IF ativos = <<>> THEN <<>>
    ELSE IF minimo > 0
    THEN SelectSeq(ativos, LAMBDA item : item.payout.k = "num" /\ item.payout.v >= minimo)
    ELSE ativos

\* analisador_ativos.py lines 559-563 (buscar_ativos_payouts): the loop that keeps the
\* entries with payout >= payout_minimo; comparing None with a number raises TypeError
RECURSIVE FiltrarBuscar(_, _, _)
FiltrarBuscar(ativos, minimo, kept) ==
    IF ativos = <<>> THEN [raised |-> FALSE, kept |-> kept]
    ELSE IF Head(ativos).payout.k # "num" THEN [raised |-> TRUE, kept |-> kept]
    ELSE FiltrarBuscar(Tail(ativos), minimo,
                       IF Head(ativos).payout.v >= minimo
                       THEN Append(kept, Head(ativos)) ELSE kept)

\* no filter has run
FiltNone ==
    /\ payout_minimo = 0
    /\ ativos_filtrados = [by |-> "none", raised |-> FALSE, kept |-> <<>>]

\* how the api answers: the api object (present and connected, absent, or
\* check_connect() false), and for each call whether it returns or raises;
\* get_all_init may also return None or an unsuccessful result
ApiAnswers ==
    [api : {"ok", "absent", "disconnected"},
     get_all_open_time : {"ok", "raise"},
     get_all_init : {"ok", "raise", "None", "unsuccessful"},
     get_all_profit : {"ok", "raise", "None"}]

AllOk == [api |-> "ok", get_all_open_time |-> "ok", get_all_init |-> "ok",
          get_all_profit |-> "ok"]

\* ativos.py line 63 testing only that the api object exists
Conectada_sem_check(resp) == resp.api # "absent"

\* ativos.py line 63: api and api.check_connect()
Conectada(resp) == resp.api = "ok"

\* ativos.py line 93 asking for the initialization data whatever the market
BuscaInit_sempre(mercado) == TRUE

\* ativos.py line 93: init_info is asked for only when the market is Binario/Turbo
BuscaInit(mercado) == mercado = "Binario/Turbo"

\* ativos.py lines 63-219 with the calls to the api: the return kind (None or a
\* list), the list, and the requests issued
ListarComApi(mercado, raw, init, profits, resp) ==
    LET tipos == MERCADO_PARA_TIPOS_API(mercado)
        init_ok == BuscaInit(mercado) /\ resp.get_all_init = "ok" /\ init.isSuccessful
        init_eff == IF init_ok THEN init ELSE [isSuccessful |-> FALSE, result |-> <<>>]
        profits_eff == IF init_ok /\ resp.get_all_profit = "ok" THEN profits ELSE <<>>
        reqs == {"get_all_open_time"}
                \cup (IF BuscaInit(mercado) THEN {"get_all_init"} ELSE {})
                \cup (IF mercado = "Binario/Turbo" /\ init_ok
                      THEN {"get_all_profit"} ELSE {})
    IN IF ~Conectada(resp)
       THEN [ret |-> "None", lista |-> <<>>,
             requests |-> IF resp.api = "absent" THEN {} ELSE {"check_connect"}]
       ELSE IF tipos = <<>>
       THEN [ret |-> "list", lista |-> <<>>, requests |-> {"check_connect"}]
       ELSE IF resp.get_all_open_time = "raise"
       THEN [ret |-> "None", lista |-> <<>>,
             requests |-> {"check_connect", "get_all_open_time"}]
       ELSE [ret |-> "list",
             lista |-> listar_ativos_abertos_com_payout(mercado, raw, init_eff, profits_eff),
             requests |-> {"check_connect"} \cup reqs]

ApiNone ==
    /\ respostas = AllOk
    /\ retorno = [ret |-> "none", requests |-> {}]

\* balances passed in, in thousandths; None is database.py line 331's case
SaldoArgs == {[k |-> "None", v |-> 0], Num(0), Num(14), Num(26)}

\* round(x, 2) of a balance in thousandths, as cents
Round2(x) == (x + 5) \div 10

\* database.py lines 323-387: the row after the call; ativa is whether
\* obter_saldos_conta found an active account, gravou whether the UPDATE succeeded
atualizar_saldos_conta(row, tipo_atual, saldo_atual, ativa, gravou) ==
    LET saldo == IF saldo_atual.k = "None" THEN 0 ELSE Round2(saldo_atual.v)
        col == ColunaDoTipo(tipo_atual)
    IN IF ~ativa \/ ~gravou THEN row
       ELSE [c \in Colunas |-> IF c = col THEN saldo ELSE row[c]]

NoDbCall == [tipo |-> "none", antes |-> [c \in Colunas |-> 0],
             depois |-> [c \in Colunas |-> 0], ret |-> FALSE]

DbNone ==
    /\ saldos = [c \in Colunas |-> 0]
    /\ db_call = NoDbCall

\* a call of atualizar_saldos_conta(conta_id, tipo_atual, saldo_atual, moeda)
AtualizarSaldosConta ==
    \E tipo \in TipoArgs, saldo \in SaldoArgs, ativa \in BOOLEAN, gravou \in BOOLEAN :
        /\ saldos' = atualizar_saldos_conta(saldos, tipo, saldo, ativa, gravou)
        /\ db_call' = [tipo |-> tipo, antes |-> saldos, depois |-> saldos',
                       ret |-> ativa /\ gravou]
        /\ UNCHANGED <<cacheVars, dispVars, loginVars, readVars, sockVars, histVars,
                       operation, resVars, filtVars, apiVars, contaVars, handVars>>

HandNone == houve_falha = FALSE

MoreNone == FiltNone /\ ApiNone /\ DbNone /\ ContaNone /\ HandNone

FUnchanged == UNCHANGED <<cacheVars, dispVars, loginVars, readVars, sockVars, histVars,
                          operation, resVars, payout_minimo, apiVars, dbVars, contaVars,
                          handVars>>

\* app.py lines 299-328: exibir_ativos_abertos filters the list the resolver returned
ExibirAtivosAbertos ==
    /\ ativos_ordenados.returned
    /\ ativos_filtrados.by = "none"
    /\ ativos_filtrados' = [by |-> "exibir_ativos_abertos", raised |-> FALSE,
                            kept |-> FiltrarExibir(ativos_ordenados.lista, payout_minimo)]
    /\ FUnchanged

\* analisador_ativos.py lines 552-568: buscar_ativos_payouts filters the list
BuscarAtivosPayouts ==
    /\ ativos_ordenados.returned
    /\ ativos_filtrados.by = "none"
    /\ ativos_filtrados' =
          LET r == FiltrarBuscar(ativos_ordenados.lista, payout_minimo, <<>>)
          IN [by |-> "buscar_ativos_payouts", raised |-> r.raised, kept |-> r.kept]
    /\ FUnchanged

\* the quotes a resolver call can return: any of the symbols, each with a payout or
\* none, in the resolver's order
RECURSIVE Quotes(_, _)
Quotes(f, i) ==
    IF i > Len(SymbolsSorted) THEN <<>>
    ELSE (IF f[SymbolsSorted[i]].k = "absent" THEN <<>>
          ELSE <<[nome |-> SymbolsSorted[i], payout |-> f[SymbolsSorted[i]]]>>)
         \o Quotes(f, i + 1)

MinPayouts == {0, 85, 86, 90}

\* no call of the resolver
ResNone ==
    /\ MoreNone
    /\ mercado_foco = "none"
    /\ ativos_raw = <<>>
    /\ init_info = [isSuccessful |-> FALSE, result |-> <<>>]
    /\ all_profits = <<>>
    /\ ativos_ordenados = [returned |-> FALSE, lista |-> <<>>]

RUnchangedRes == UNCHANGED <<cacheVars, dispVars, loginVars, readVars, sockVars, histVars,
                             operation, moreVars>>

\* a call of listar_ativos_abertos_com_payout(api, mercado_foco)
Listar ==
    /\ ~ativos_ordenados.returned
    /\ mercado_foco # "none"
    /\ ativos_ordenados' =
          [returned |-> TRUE,
           lista |-> listar_ativos_abertos_com_payout(mercado_foco, ativos_raw,
                                                      init_info, all_profits)]
    /\ UNCHANGED <<mercado_foco, ativos_raw, init_info, all_profits>>
    /\ RUnchangedRes

\* a call of listar_ativos_abertos_com_payout(api, mercado_foco), with its requests
ListarApi ==
    /\ retorno.ret = "none"
    /\ ~ativos_ordenados.returned
    /\ mercado_foco # "none"
    /\ LET r == ListarComApi(mercado_foco, ativos_raw, init_info, all_profits, respostas)
       IN /\ retorno' = [ret |-> r.ret, requests |-> r.requests]
          /\ ativos_ordenados' = [returned |-> TRUE, lista |-> r.lista]
    /\ UNCHANGED <<mercado_foco, ativos_raw, init_info, all_profits, respostas, filtVars, dbVars,
                   contaVars, handVars>>
    /\ UNCHANGED <<cacheVars, dispVars, loginVars, readVars, sockVars, histVars, operation>>

---------------------------------------------------------------------------
(* The socket callbacks on_error / on_close and the session's view          *)
(* of the connection.                                                       *)

NoInfo == [called |-> FALSE, conectado |-> FALSE, tipo_conta |-> "none", saldo |-> "none",
           moeda |-> "none", ultimo_erro |-> "none"]

\* global_value before any socket event, no obter_info_conta result yet
SockInit ==
    /\ check_websocket_if_connect = "None"
    /\ check_websocket_if_error = FALSE
    /\ info = NoInfo

SUnchanged ==
    UNCHANGED <<cacheVars, dispVars, loginVars, readVars, histVars, operation, resVars,
                moreVars>>

\* client.py lines 243-248: on_error
on_error ==
    /\ check_websocket_if_error' = TRUE
    /\ UNCHANGED <<check_websocket_if_connect, info>>
    /\ SUnchanged

\* client.py lines 258-262: on_close
on_close ==
    /\ check_websocket_if_connect' = 0
    /\ UNCHANGED <<check_websocket_if_error, info>>
    /\ SUnchanged

\* login.py lines 234-246: obter_info_conta returns the fields of the session
obter_info_conta ==
    /\ info' = [called |-> TRUE,
                conectado |-> login.conectado, tipo_conta |-> login.tipo_conta,
                saldo |-> login.saldo, moeda |-> login.moeda,
                ultimo_erro |-> login.ultimo_erro]
    /\ UNCHANGED <<check_websocket_if_connect, check_websocket_if_error>>
    /\ SUnchanged

---------------------------------------------------------------------------
(* The bounded retry loop: obter_dados_historicos_seguro, called asset by   *)
(* asset on one api object by AnalisadorAtivos.executar_analise_completa.   *)

\* analisador_ativos.py line 27
MAX_TENTATIVAS_RECONEXAO == 3

\* api.get_candles(...): candles, nothing, an exception naming the socket / "need
\* reconnect", or any other exception
CandleResults == {"velas", "vazio", "socket", "erro"}
\* api.connect() at line 142: returns, or raises
ReconnectResults == {"ok", "raise"}

HistInit ==
    /\ idx = 0
    /\ hpc = "idle"
    /\ tentativa = 0
    /\ hret = "none"
    /\ fetches = 0
    /\ reconnects = 0
    /\ exhausted = FALSE

ExtInit == SockInit /\ HistInit /\ operation = "any" /\ ResNone

HUnchanged ==
    UNCHANGED <<cacheVars, dispVars, loginVars, readVars, sockVars, operation, resVars,
                moreVars>>

\* lines 744-771 and 585: the next asset of the list is analysed; lines 95-103: the
\* loop starts with tentativa = 1
ObterDadosHistoricos ==
    /\ hpc = "idle"
    /\ idx < MaxAtivos
    /\ hpc' = "get_candles"
    /\ tentativa' = 1
    /\ hret' = "none"
    /\ fetches' = 0
    /\ reconnects' = 0
    /\ UNCHANGED <<idx, exhausted>>
    /\ HUnchanged

\* line 103 as a loop that retries until it succeeds
ProximaTentativa_sem_limite(rec) ==
    /\ reconnects' = rec
    /\ hpc' = "get_candles"
    /\ UNCHANGED <<tentativa, hret, exhausted>>

\* line 103: the for loop goes to the next attempt, or falls through to lines 147-149
ProximaTentativa(rec) ==
    /\ reconnects' = rec
    /\ IF tentativa < MAX_TENTATIVAS_RECONEXAO
       THEN /\ tentativa' = tentativa + 1
            /\ hpc' = "get_candles"
            /\ UNCHANGED <<hret, exhausted>>
       ELSE /\ hpc' = "returned"
            /\ hret' = "None"
            /\ exhausted' = TRUE
            /\ UNCHANGED tentativa

\* lines 104-138: one attempt; res is what api.get_candles gives
GetCandles(res) ==
    /\ hpc = "get_candles"
    /\ fetches' = fetches + 1
    /\ CASE res = "velas" ->
              /\ hpc' = "returned"
              /\ hret' = "df"
              /\ UNCHANGED <<tentativa, reconnects, exhausted>>
         [] res = "socket" ->
              /\ hpc' = "reconnect"
              /\ UNCHANGED <<tentativa, hret, reconnects, exhausted>>
         [] OTHER -> ProximaTentativa(reconnects)
    /\ UNCHANGED idx
    /\ HUnchanged

\* lines 138-145: api.connect() after a connection error; its failure is only logged
Reconnect(res) ==
    /\ hpc = "reconnect"
    /\ res \in ReconnectResults
    /\ ProximaTentativa(reconnects + 1)
    /\ UNCHANGED <<idx, fetches>>
    /\ HUnchanged

\* lines 587-589 and 744: the caller takes the result and goes to the next asset
HistRetorna ==
    /\ hpc = "returned"
    /\ hpc' = "idle"
    /\ idx' = idx + 1
    /\ UNCHANGED <<tentativa, hret, fetches, reconnects, exhausted>>
    /\ HUnchanged

---------------------------------------------------------------------------
(* Specifications *)

Init == CacheInit /\ DispInit /\ LoginInit /\ ExtInit

\* the dispatcher fed by one receiver thread, message after message
NextDispatch ==
    \/ \E m \in Messages : OnMessageEnter(1, m)
    \/ OnMessageReject(1)
    \/ OnMessageParse(1)
    \/ OnMessageHandler(1)
    \/ OnMessageReturn(1)
    \/ OnMessageNext(1)

Spec == Init /\ [][NextDispatch]_vars

\* one message of each kind on_message tells apart, and every well-formed frame
HandlerMessages ==
    FrameMessages
    \cup {NoneMessage, [type |-> "bytes_invalid", text |-> <<>>]}
    \cup {[type |-> "str", text |-> t] :
              t \in {<<>>, <<WS>>, <<Tok("x")>>, <<Tok("["), Tok("]")>>, <<Tok("{"), Tok("x")>>}}

\* the dispatcher fed by one receiver thread, with handlers that may raise
NextHandlers ==
    \/ \E m \in HandlerMessages : OnMessageEnter(1, m)
    \/ OnMessageReject(1)
    \/ OnMessageParse(1)
    \/ OnMessageHandler(1)
    \/ OnMessageHandlerFalha(1)
    \/ OnMessageReturn(1)
    \/ OnMessageNext(1)

SpecHandlers == Init /\ [][NextHandlers]_vars

\* messages of the two-receiver specification
RaceMessages ==
    {m \in FrameMessages : m.text[2].name \in {"profile", "order-placed-temp"}}
    \cup {[type |-> "str", text |-> t] : t \in {<<>>, <<Tok("["), Tok("]")>>, <<Tok("{"), Tok("x")>>}}

\* on_message invoked from two threads
NextRace ==
    \/ \E r \in Receivers, m \in RaceMessages : OnMessageEnter(r, m)
    \/ \E r \in Receivers : OnMessageReject(r)
    \/ \E r \in Receivers : OnMessageParse(r)
    \/ \E r \in Receivers : OnMessageHandler(r)
    \/ \E r \in Receivers : OnMessageReturn(r)
    \/ \E r \in Receivers : OnMessageNext(r)

InitRace == Init /\ maxdict = 1

SpecRace == InitRace /\ [][NextRace]_vars

\* a connected session whose first profile frame (b1, USD) has been dispatched and
\* read by conectar
InitRefresh ==
    /\ CacheInit
    /\ maxdict = 1
    /\ ssl_Mutual_exclusion = FALSE
    /\ pc = [r \in Receivers |-> "idle"]
    /\ msg = [r \in Receivers |-> NoneMessage]
    /\ hidx = [r \in Receivers |-> 0]
    /\ applied = [r \in Receivers |-> <<>>]
    /\ escaped = [r \in Receivers |-> FALSE]
    /\ api = [DispInitApi EXCEPT !.balance = "b1", !.currency = "USD"]
    /\ pre = [r \in Receivers |-> [api |-> DispInitApi, cache |-> cache]]
    /\ expected = [api |-> api, cache |-> cache]
    /\ balance_mode = "PRACTICE"
    /\ call = NoCall
    /\ login = [LoginNovo EXCEPT !.api = TRUE, !.conectado = TRUE,
                                 !.tipo_conta = "TREINAMENTO",
                                 !.saldo = "b1", !.moeda = "USD"]
    /\ rpc = "idle"
    /\ snaps = {}
    /\ ExtInit

\* one receiver thread dispatching while the foreground refreshes the balance
NextRefresh ==
    \/ \E m \in RaceMessages : OnMessageEnter(1, m)
    \/ OnMessageReject(1)
    \/ OnMessageParse(1)
    \/ OnMessageHandler(1)
    \/ OnMessageReturn(1)
    \/ OnMessageNext(1)
    \/ RefreshStart
    \/ RefreshGetBalance
    \/ RefreshGetCurrency
    \/ RefreshReturn

SpecRefresh == InitRefresh /\ [][NextRefresh]_vars

\* dict_queue_add called by one caller, call after call
NextCache == \E s \in Streams, k \in Keys, v \in Values : DictQueueAdd(s, k, v)

SpecCache == Init /\ [][NextCache]_vars

\* dict_queue_add called from two threads on the same cache
NextCacheRace ==
    \/ \E t \in Threads, k \in Keys : QCall(t, CandleStream, k, "v1")
    \/ \E t \in Threads : QTest(t)
    \/ \E t \in Threads : QOverwrite(t)
    \/ \E t \in Threads : QLen(t)
    \/ \E t \in Threads : QInsert(t)
    \/ \E t \in Threads : QPick(t)
    \/ \E t \in Threads : QDel(t)

SpecCacheRace == Init /\ [][NextCacheRace]_vars

\* the session: connects and account selections, under every result of the API
NextAccount ==
    \/ \E motivo \in ConnectFailures : ConectarFalha(motivo)
    \/ ConectarRaise
    \/ \E tipo \in TipoInputs, modeRes \in ModeResults, chgRes \in ChangeResults,
          balRes \in BalanceResults, curRes \in CurrencyResults :
          ConectarOk(tipo, "skipped", modeRes, chgRes, balRes, curRes)
    \/ \E tipo \in TipoInputs, modeRes \in ModeResults, chgRes \in ChangeResults,
          balRes \in BalanceResults, curRes \in CurrencyResults :
          SelecionarTipoConta(tipo, modeRes, chgRes, balRes, curRes)
    \/ \E modeRes2 \in ModeResults, balRes2 \in BalanceResults, curRes2 \in CurrencyResults :
          ConectarVerifica(modeRes2, balRes2, curRes2)
    \/ \E balRes \in BalanceResults, curRes \in CurrencyResults : AtualizarSaldo(balRes, curRes)
    \/ Retorna

\* login_iqoption (app.py 213-257): conectar with the account's id, so with the
\* profile step, under every result of the API, then the balance is stored
NextLogin ==
    \/ \E motivo \in ConnectFailures : ConectarFalha(motivo)
    \/ \E tipo \in TipoInputs, perfil \in PerfilResults \ {"skipped"}, modeRes \in ModeResults,
          chgRes \in ChangeResults, balRes \in BalanceResults, curRes \in CurrencyResults :
          ConectarOk(tipo, perfil, modeRes, chgRes, balRes, curRes)
    \/ \E modeRes2 \in ModeResults, balRes2 \in BalanceResults, curRes2 \in CurrencyResults :
          ConectarVerifica(modeRes2, balRes2, curRes2)
    \/ \E ativa \in BOOLEAN : LoginIqoption(ativa)
    \/ LoginRetorna

\* a new session, with any account mode active at the broker
InitAccount ==
    /\ CacheInit
    /\ maxdict = 1
    /\ DispInit
    /\ login = LoginNovo
    /\ balance_mode \in Modes
    /\ call = NoCall
    /\ rpc = "idle"
    /\ snaps = {}
    /\ ExtInit

SpecLogin == InitAccount /\ [][NextLogin]_vars

\* a connected session (conectar returned True: socket opened, first profile frame
\* read) with any account mode active at the broker
InitSupervisor ==
    /\ CacheInit
    /\ maxdict = 1
    /\ DispInit
    /\ balance_mode \in Modes
    /\ login = [LoginNovo EXCEPT !.api = TRUE, !.conectado = TRUE,
                                 !.tipo_conta = NomeDoModo(balance_mode),
                                 !.saldo = "b1", !.moeda = "USD"]
    /\ call = NoCall
    /\ rpc = "idle"
    /\ snaps = {}
    /\ check_websocket_if_connect = 1       \* client.py line 255: on_open has run
    /\ check_websocket_if_error = FALSE
    /\ info = NoInfo
    /\ HistInit
    /\ operation = "any"
    /\ ResNone

\* the socket reports errors and closes while the foreground uses the session
NextSupervisor ==
    \/ on_error
    \/ on_close
    \/ obter_info_conta
    \/ \E balRes \in BalanceResults, curRes \in CurrencyResults : AtualizarSaldo(balRes, curRes)
    \/ \E tipo \in TipoNames, modeRes \in ModeResults, chgRes \in ChangeResults,
          balRes \in BalanceResults, curRes \in CurrencyResults :
          SelecionarTipoConta(tipo, modeRes, chgRes, balRes, curRes)
    \/ Retorna

SpecSupervisor == InitSupervisor /\ [][NextSupervisor]_vars

\* the analysis of a list of assets on one connected api object
NextHist ==
    \/ ObterDadosHistoricos
    \/ \E res \in CandleResults : GetCandles(res)
    \/ \E res \in ReconnectResults : Reconnect(res)
    \/ HistRetorna

InitHist == InitSupervisor /\ balance_mode = "PRACTICE"

SpecHist == InitHist /\ [][NextHist]_vars

\* the core operations with a loop or a retry in them
Operations == {"dict_queue_add", "_selecionar_tipo_conta", "obter_dados_historicos_seguro"}

\* a connected session; the run calls one of the core operations again and again,
\* under every response of the API
InitBounded ==
    /\ CacheInit
    /\ DispInit
    /\ balance_mode = "PRACTICE"
    /\ login = [LoginNovo EXCEPT !.api = TRUE, !.conectado = TRUE,
                                 !.tipo_conta = "TREINAMENTO",
                                 !.saldo = "b1", !.moeda = "USD"]
    /\ call = NoCall
    /\ rpc = "idle"
    /\ snaps = {}
    /\ check_websocket_if_connect = 1
    /\ check_websocket_if_error = FALSE
    /\ info = NoInfo
    /\ HistInit
    /\ operation \in Operations
    /\ ResNone

NextBounded ==
    \/ /\ operation = "dict_queue_add"
       /\ \/ \E k \in Keys : QCall(1, CandleStream, k, "v1")
          \/ QTest(1)
          \/ QOverwrite(1)
          \/ QLen(1)
          \/ QInsert(1)
          \/ QPick(1)
          \/ QDel(1)
    \/ /\ operation = "_selecionar_tipo_conta"
       /\ \/ \E tipo \in TipoInputs, modeRes \in ModeResults, chgRes \in ChangeResults,
                balRes \in BalanceResults, curRes \in CurrencyResults :
                SelecionarTipoConta(tipo, modeRes, chgRes, balRes, curRes)
          \/ Retorna
    \/ /\ operation = "obter_dados_historicos_seguro"
       /\ NextHist

SpecBounded == InitBounded /\ [][NextBounded]_vars

\* a connected api and any answers of get_all_open_time, get_all_init and
\* get_all_profit for the market asked for
InitResolver ==
    /\ CacheInit
    /\ maxdict = 1
    /\ DispInit
    /\ LoginInit
    /\ SockInit
    /\ HistInit
    /\ operation = "any"
    /\ mercado_foco \in Mercados
    /\ ativos_raw \in [TypesOf(mercado_foco) -> SUBSET Symbols]
    /\ init_info \in
          IF mercado_foco = "Binario/Turbo"
          THEN [isSuccessful : BOOLEAN,
                result : [TypesOf(mercado_foco) ->
                             {{NomeDoAtivo(sym) : sym \in S} : S \in SUBSET Symbols}]]
          ELSE {[isSuccessful |-> FALSE, result |-> <<>>]}
    /\ all_profits \in
          IF mercado_foco = "Binario/Turbo" /\ init_info.isSuccessful
          THEN UNION {[S -> PayoutInfos \ {[turbo |-> Absent, binary |-> Absent]}] :
                         S \in SUBSET Symbols}
          ELSE {<<>>}
    /\ ativos_ordenados = [returned |-> FALSE, lista |-> <<>>]
    /\ MoreNone

NextResolver == Listar

\* a list returned by the resolver for Binario/Turbo, and a minimum payout
InitFilter ==
    /\ CacheInit
    /\ maxdict = 1
    /\ DispInit
    /\ LoginInit
    /\ SockInit
    /\ HistInit
    /\ operation = "any"
    /\ mercado_foco = "Binario/Turbo"
    /\ ativos_raw = <<>>
    /\ init_info = [isSuccessful |-> FALSE, result |-> <<>>]
    /\ all_profits = <<>>
    /\ \E f \in [Symbols -> {Absent, None, Num(85), Num(87)}] :
          ativos_ordenados = [returned |-> TRUE, lista |-> Sorted(Quotes(f, 1))]
    /\ payout_minimo \in MinPayouts
    /\ ativos_filtrados = [by |-> "none", raised |-> FALSE, kept |-> <<>>]
    /\ ApiNone
    /\ DbNone
    /\ ContaNone
    /\ HandNone

\* the actives get_all_init() lists per API type: every symbol under both types, every
\* symbol under turbo only, or every symbol but EURUSD
ActivesChoices ==
    {[binary |-> {NomeDoAtivo(sym) : sym \in Symbols},
      turbo |-> {NomeDoAtivo(sym) : sym \in Symbols}],
     [binary |-> {}, turbo |-> {NomeDoAtivo(sym) : sym \in Symbols}],
     [binary |-> {NomeDoAtivo(sym) : sym \in Symbols \ {"EURUSD"}},
      turbo |-> {NomeDoAtivo(sym) : sym \in Symbols \ {"EURUSD"}}]}

\* payout snapshots: none, one symbol, every symbol
ProfitChoices ==
    {<<>>,
     [sym \in {"EURUSD"} |-> [turbo |-> Num(870), binary |-> Absent]],
     [sym \in Symbols |-> [turbo |-> Num(850), binary |-> Num(870)]]}

\* any market, any open map, and any answers of the api to the resolver's calls
InitApi ==
    /\ CacheInit
    /\ maxdict = 1
    /\ DispInit
    /\ LoginInit
    /\ SockInit
    /\ HistInit
    /\ operation = "any"
    /\ FiltNone
    /\ mercado_foco \in Mercados \cup {"Cripto"}
    /\ ativos_raw \in [TypesOf(mercado_foco) -> SUBSET Symbols]
    /\ init_info \in [isSuccessful : {TRUE}, result : ActivesChoices]
    /\ all_profits \in ProfitChoices
    /\ ativos_ordenados = [returned |-> FALSE, lista |-> <<>>]
    /\ respostas \in ApiAnswers
    /\ retorno = [ret |-> "none", requests |-> {}]
    /\ DbNone
    /\ ContaNone
    /\ HandNone

NextApi == ListarApi

SpecApi == InitApi /\ [][NextApi]_vars

\* the row as created: the three balances default to 0.0 (database.py 176-178)
InitDb ==
    /\ CacheInit
    /\ maxdict = 1
    /\ DispInit
    /\ LoginInit
    /\ ExtInit

NextDb == AtualizarSaldosConta

SpecDb == InitDb /\ [][NextDb]_vars

NextFilter ==
    \/ ExibirAtivosAbertos
    \/ BuscarAtivosPayouts

SpecFilter == InitFilter /\ [][NextFilter]_vars

SpecResolver == InitResolver /\ [][NextResolver]_vars

SpecAccount == InitAccount /\ [][NextAccount]_vars

---------------------------------------------------------------------------
(* Properties *)

\* a receiver is inside the handler section of on_message (lines 171-226)
InDispatch(r) == pc[r] = "handlers"

\* C1: mutual exclusion of dispatch: at most one invocation of on_message is applying
\* its frame's handlers to the session state at any time.
C1_MutualExclusionOfDispatch == Cardinality({r \in Receivers : InDispatch(r)}) <= 1

\* C2: no torn reads: when a balance refresh ends, the stored (saldo, moeda) pair is a
\* pair the session state held at one instant of the refresh: both values come from
\* the same dispatched frame.
C2_NoTornRead == rpc = "done" => <<login.saldo, login.moeda>> \in snaps

\* C3: after every sequence of messages handed to on_message one after another, the
\* session state and the caches equal the fold of the frames' isolated effects in
\* arrival order.
C3_FoldInArrivalOrder == pc[1] \in {"idle", "returned"} => State = expected

\* C3 witness: a profile frame and then a balance-changed frame have been dispatched:
\* the later frame's balance stands beside the earlier frame's currency.
C3_Witness ==
    /\ pc[1] = "returned"
    /\ Parsed(msg[1]).frame.name = "balance-changed"
    /\ api.balance = "b3"
    /\ api.currency = "BRL"
    /\ State = expected

\* C4: bounded cache: after each dict_queue_add call no cache holds more than maxdict
\* entries.
C4_BoundedCache == \A s \in Streams : DicSize(cache[s]) <= maxdict

\* C4 witness: a call inserted a new key into a cache that was at capacity.
C4_Witness ==
    /\ lastAdd.stream \in Streams
    /\ lastAdd.key3 \notin DOMAIN lastAdd.before
    /\ DicSize(lastAdd.before) = maxdict
    /\ DicSize(cache[lastAdd.stream]) = maxdict

\* C5: interleaved dict_queue_add calls keep the cache within maxdict entries, never
\* fail, and never evict the entry the other call inserted meanwhile.
C5_GuardedAgainstRaces ==
    /\ \A s \in Streams : DicSize(cache[s]) <= maxdict
    /\ \A t \in Threads : qfail[t] = "none"
    /\ \A s \in Streams : ~qfresh[s].evicted

\* the last call inserted a new key into a cache that was exactly at capacity
AddAtCapacity ==
    /\ lastAdd.stream \in Streams
    /\ lastAdd.key3 \notin DOMAIN lastAdd.before
    /\ DicSize(lastAdd.before) = maxdict

\* C6: inserting a new key at capacity evicts exactly one entry, the one with the
\* lowest key, and the new entry is in the cache when the call returns.
C6_EvictsLowestKeepsNew ==
    AddAtCapacity =>
        LET b == DOMAIN lastAdd.before
            a == DOMAIN cache[lastAdd.stream]
        IN /\ Cardinality(b \ a) = 1
           /\ \A e \in b \ a : \A k \in b : e <= k
           /\ a \ b = {lastAdd.key3}
           /\ cache[lastAdd.stream][lastAdd.key3] = lastAdd.value
           /\ \A k \in a \cap b : cache[lastAdd.stream][k] = lastAdd.before[k]

\* C6 witness: the new key is lower than every key the full cache held, and it is
\* in the cache after the call.
C6_Witness ==
    /\ AddAtCapacity
    /\ \A k \in DOMAIN lastAdd.before : lastAdd.key3 < k
    /\ lastAdd.key3 \in DOMAIN cache[lastAdd.stream]

\* the inputs C7 names: null, undecodable, empty or whitespace, not starting with
\* "{" or "[", invalid JSON, JSON that is not an object
Malformed(m) ==
    \/ m.type \in {"None", "bytes_invalid", "object"}
    \/ Strip(m.text) = <<>>
    \/ Head(Strip(m.text)).ch \notin {"{", "["}
    \/ JsonLoads(Strip(m.text)).json # "object"

\* C7: malformed input is absorbed: on_message returns without raising and leaves the
\* session state and the caches as they were.
C7_MalformedAbsorbed ==
    (pc[1] = "returned" /\ Malformed(msg[1])) => (~escaped[1] /\ State = pre[1])

\* C7 witness: a JSON array went through json.loads to the handlers and on_message
\* returned, the session state being one earlier frames had written.
C7_Witness ==
    /\ pc[1] = "returned"
    /\ msg[1].type = "bytes"
    /\ JsonLoads(Strip(msg[1].text)).json = "array"
    /\ ~escaped[1]
    /\ api.balance = "b2"
    /\ State = pre[1]

\* the number of times handler h was applied to the receiver's frame
TimesApplied(r, h) == Cardinality({i \in 1..Len(applied[r]) : applied[r][i] = h})

\* C8: for each parsed frame, each handler relevant to the frame's tag is applied
\* exactly once and no other handler is applied; a frame with an unrecognised tag
\* changes nothing.
C8_HandlersOncePerFrame ==
    (/\ pc[1] = "returned"
     /\ ~Malformed(msg[1])
     /\ Parsed(msg[1]).frame.name # "") =>
        LET tag == Parsed(msg[1]).frame.name IN
        /\ \A i \in 1..Len(HandlerList) :
              TimesApplied(1, HandlerList[i]) =
                  IF HandlerTag(HandlerList[i]) = tag THEN 1 ELSE 0
        /\ tag \notin KnownTags => State = pre[1]

\* C9: a selection called while the broker already reports the target as the active
\* mode sends no change_balance request and leaves the active mode alone.
C9_IdempotentSelection ==
    (call.mode_read \in Modes /\ call.mode_read = CodigoTipo(call.alvo)) =>
        (call.requests = 0 /\ call.mode_after = call.mode_read)

\* C9 witness: the session already is on TREINAMENTO, the broker reports PRACTICE, and
\* a further selection of TREINAMENTO succeeds without a request.
C9_Witness ==
    /\ call.alvo = "TREINAMENTO"
    /\ call.tipo_before = "TREINAMENTO"
    /\ call.mode_read = "PRACTICE"
    /\ call.requests = 0
    /\ call.ret

\* C10: scenario D: a switch to REAL requested on a session that is on the demo
\* account, which the broker accepts while the active mode read before and after
\* stays the demo account, returns failure and leaves the session's account type as
\* it was before the call.
C10_ScenarioD ==
    (/\ call.alvo = "REAL"
     /\ call.tipo_before = "TREINAMENTO"
     /\ call.mode_read = "PRACTICE"
     /\ call.chg = "accept_unchanged"
     /\ call.mode_after = "PRACTICE") =>
        (~call.ret /\ call.tipo_after = call.tipo_before)

\* C11: every failing _selecionar_tipo_conta that sent a switch request (rejected,
\* raising, or accepted with the balance refresh failing afterwards) leaves tipo_conta
\* at the value it had before the call
C11_FailureKeepsTipoConta ==
    (call.requests = 1 /\ ~call.ret) => call.tipo_after = call.tipo_before

\* C12: when a read of _atualizar_saldo raises or returns None, the refresh returns
\* failure and saldo and moeda keep the values they had before the call
C12_LastGoodValueRetained ==
    (call.alvo = "refresh" /\ ({call.bal, call.cur} \cap {"raise", "None"}) # {})
    => (~call.ret /\ login.saldo = call.saldo_before /\ login.moeda = call.moeda_before)

\* the socket has reported an error or a close
SocketLost == check_websocket_if_connect = 0 \/ check_websocket_if_error

\* C13: once on_close / on_error has run on a connected session, every later
\* foreground operation sees the session disconnected: obter_info_conta reports
\* conectado = False, and _atualizar_saldo / _selecionar_tipo_conta refuse to run
\* (no read, no request is made)
C13_DisconnectedAfterSocketLoss ==
    [][SocketLost =>
         /\ (info' # info => info'.conectado = FALSE)
         /\ ((call = NoCall /\ call' # NoCall) =>
                (call'.bal = "none" /\ call'.mode_read = "none" /\ call'.requests = 0
                 /\ ~call'.ret))]_vars

\* C14: once the retry loop has used up its budget of 3 attempts on a session, that
\* session is closed for good: no further attempt or request is made on it
C14_FatalIsTerminal ==
    exhausted => hpc \in {"returned", "idle"}

\* the kinds of connection failure: network, authentication (challenge or rejection),
\* unspecified
KindOf(motivo) ==
    CASE motivo = "Falha na conexao de rede" -> "network"
      [] motivo \in {"2FA", "invalid_credentials"} -> "authentication"
      [] OTHER -> "unspecified"

\* conectar has returned; it returned False exactly when api.connect() failed
ConectarReturned == call.op = "conectar" /\ ~call.pending /\ call.alvo # "exception"
ConectarFailed == call.alvo = "connect failed"

\* C15: after conectar returns False the session has conectado = False and a non-null
\* ultimo_erro that no failure of another kind (network, authentication, unspecified)
\* would have produced; after conectar returns True, conectado = True and ultimo_erro
\* is null
C15_ConectarRecordsTypedError ==
    ConectarReturned =>
        IF ConectarFailed
        THEN /\ ~login.conectado
             /\ login.ultimo_erro # "None"
             /\ \A m \in ConnectFailures :
                    KindOf(m) # KindOf(call.motivo) => ErroDeConexao(m) # login.ultimo_erro
        ELSE login.conectado /\ login.ultimo_erro = "None"

\* a connect rejected for its credentials on a session that had connected before
C15_Witness ==
    /\ ConectarReturned
    /\ ConectarFailed
    /\ call.motivo = "invalid_credentials"
    /\ login.tipo_conta # "None"

\* C16: no exception leaves conectar or _selecionar_tipo_conta, whatever the
\* underlying API calls raise or return: failure shows only in the return value
C16_NeverRaise ==
    call.alvo # "exception"

\* steps dict_queue_add still has to take at most, from the position of the caller
\* and the size n of the cache: test, then per eviction len / pick / del, then insert
QRank(t) ==
    LET n == DicSize(cache[QStream(t)])
    IN CASE qpc[t] = "test" -> 3 * n + 3
         [] qpc[t] = "len"  -> 3 * n + 2
         [] qpc[t] = "pick" -> 3 * n + 1
         [] qpc[t] = "del"  -> 3 * n
         [] qpc[t] \in {"insert", "overwrite"} -> 1
         [] OTHER -> 0

\* steps obter_dados_historicos_seguro still has to take at most
HRank ==
    CASE hpc = "get_candles" -> 2 * (MAX_TENTATIVAS_RECONEXAO - tentativa) + 2
      [] hpc = "reconnect"   -> 2 * (MAX_TENTATIVAS_RECONEXAO - tentativa) + 1
      [] OTHER -> 0

\* C17: every core operation ends after a bounded number of steps, whatever the API
\* answers: each step of dict_queue_add's loop (maxdict >= 1) and of the retry loop
\* brings the operation nearer to its end; _selecionar_tipo_conta makes at most one
\* switch request and one refresh; obter_dados_historicos_seguro makes at most 3
\* fetch attempts and at most one reconnect per failed attempt
C17_NoIndefiniteWait ==
    [][/\ (qpc[1] # "idle" => QRank(1)' < QRank(1))
       /\ (hpc \in {"get_candles", "reconnect"} => HRank' < HRank)
       /\ call'.requests <= 1 /\ call'.refreshes <= 1
       /\ fetches' <= MAX_TENTATIVAS_RECONEXAO
       /\ tentativa' <= MAX_TENTATIVAS_RECONEXAO
       /\ reconnects' <= fetches']_vars

\* the retry loop has used all three attempts, each followed by a reconnect
C17_Witness ==
    /\ hpc = "returned" /\ hret = "None"
    /\ fetches = MAX_TENTATIVAS_RECONEXAO
    /\ reconnects = MAX_TENTATIVAS_RECONEXAO

\* the symbols of the returned list
Returned == {ativos_ordenados.lista[i].nome : i \in DOMAIN ativos_ordenados.lista}

\* the symbols marked open under some API type of the market
OpenInSegment ==
    {sym \in Symbols : \E t \in TypesOf(mercado_foco) : IsOpen(ativos_raw, t, sym)}

\* C18: the list returned by one call of listar_ativos_abertos_com_payout holds no
\* symbol twice, also when the symbol is reached through both binary and turbo
C18_NoDuplicateSymbols ==
    ativos_ordenados.returned =>
        \A i, j \in DOMAIN ativos_ordenados.lista :
            i # j => ativos_ordenados.lista[i].nome # ativos_ordenados.lista[j].nome

\* a symbol open under binary and under turbo, listed in both, is in the result
C18_Witness ==
    /\ ativos_ordenados.returned
    /\ mercado_foco = "Binario/Turbo"
    /\ init_info.isSuccessful
    /\ \E sym \in Returned :
          /\ IsOpen(ativos_raw, "binary", sym) /\ IsOpen(ativos_raw, "turbo", sym)
          /\ NomeDoAtivo(sym) \in init_info.result["binary"]
          /\ NomeDoAtivo(sym) \in init_info.result["turbo"]

\* C19: the symbols returned for a market are exactly the symbols marked open under
\* any API type of that market, each with the payout of the payout snapshot when it
\* has one and null otherwise
C19_ExactlyTheOpenSymbols ==
    ativos_ordenados.returned =>
        /\ Returned = OpenInSegment
        /\ \A i \in DOMAIN ativos_ordenados.lista :
              ativos_ordenados.lista[i].payout =
                  PayoutPerc(all_profits, ativos_ordenados.lista[i].nome)

\* the payout as the order ranks it: null counts as -1
PayoutRank(item) == IF item.payout.k = "num" THEN item.payout.v ELSE -1

\* the order of the result: payout descending, then non-OTC before OTC, then symbol
\* ascending
Precedes(a, b) ==
    \/ PayoutRank(a) > PayoutRank(b)
    \/ PayoutRank(a) = PayoutRank(b) /\ ~IsOTC(a.nome) /\ IsOTC(b.nome)
    \/ /\ PayoutRank(a) = PayoutRank(b)
       /\ IsOTC(a.nome) = IsOTC(b.nome)
       /\ SymbolRank(a.nome) < SymbolRank(b.nome)

BelowThreshold(item) == item.payout.k = "num" /\ item.payout.v < payout_minimo

\* C21: the minimum-payout filter removes exactly the entries whose payout is
\* non-null and strictly below the threshold: an entry with null payout is never
\* removed, and the filter does not fail on one
C21_FilterKeepsNullPayout ==
    ativos_filtrados.by # "none" =>
        /\ ~ativos_filtrados.raised
        /\ ativos_filtrados.kept =
              SelectSeq(ativos_ordenados.lista, LAMBDA item : ~BelowThreshold(item))

\* the initialization / payout snapshot was not obtained
SnapshotFailed ==
    respostas.get_all_init # "ok" \/ respostas.get_all_profit # "ok"

\* C22: for Binario/Turbo, when get_all_init or get_all_profit fails, raises or is
\* unsuccessful, the resolver still returns every open symbol of the market, with
\* null payout; when get_all_open_time raises, it returns the failure value and no list
C22_PartialDataTolerance ==
    (retorno.ret # "none" /\ mercado_foco = "Binario/Turbo" /\ respostas.api = "ok") =>
        /\ respostas.get_all_open_time = "raise" =>
              (retorno.ret = "None" /\ ativos_ordenados.lista = <<>>)
        /\ (respostas.get_all_open_time = "ok" /\ SnapshotFailed) =>
              /\ retorno.ret = "list"
              /\ Returned = OpenInSegment
              /\ \A i \in DOMAIN ativos_ordenados.lista :
                    ativos_ordenados.lista[i].payout = None

\* the requests that fetch data: the open map, the initialization data, the payouts
DataRequests == {"get_all_open_time", "get_all_init", "get_all_profit"}

\* C23: when the api object is absent or check_connect() is false, the resolver
\* returns None and issues no open-map, initialization or payout request
C23_NotConnectedNoRequest ==
    (retorno.ret # "none" /\ respostas.api # "ok") =>
        /\ retorno.ret = "None"
        /\ retorno.requests \cap DataRequests = {}

\* a resolver call made with an api whose check_connect() is false
C23_Witness ==
    /\ retorno.ret = "None"
    /\ respostas.api = "disconnected"
    /\ mercado_foco = "Binario/Turbo"

\* C24: for Digital, Forex and Crypto every returned entry has a null payout, and
\* no initialization or payout snapshot request is issued
C24_NoPayoutOutsideBinary ==
    (retorno.ret # "none" /\ mercado_foco \in {"Digital", "Forex", "Cripto"}) =>
        /\ \A i \in DOMAIN ativos_ordenados.lista :
              ativos_ordenados.lista[i].payout = None
        /\ retorno.requests \cap {"get_all_init", "get_all_profit"} = {}

\* a Digital listing that returned two symbols
C24_Witness ==
    /\ retorno.ret = "list"
    /\ mercado_foco = "Digital"
    /\ Len(ativos_ordenados.lista) = 2
    /\ respostas.get_all_init = "ok"

\* C25: a call of atualizar_saldos_conta for account type T changes only the stored
\* balance of T, for every sequence of calls and every value of the type argument
C25_CrossAccountIsolation ==
    db_call.tipo # "none" =>
        \A c \in Colunas :
            c # TipoNormalizado(db_call.tipo) => db_call.depois[c] = db_call.antes[c]

\* C26: the profile step is attempted at most once per connect and is not fatal:
\* whether get_profile_ansyc or the profile store succeeds, fails, returns invalid
\* data or raises, conectar goes on to the account selection, and it returns True
\* with conectado True, as it does when the profile step succeeds
C26_ProfileSyncNonFatal ==
    perfil_sync.res # "none" =>
        /\ perfil_sync.attempts <= 1
        /\ ~perfil_sync.escaped
        /\ call.op = "conectar" /\ call.alvo \in TipoNames
        /\ call.mode_read # "none"
        /\ login.conectado
        /\ ~call.pending => call.retorno_conectar = "True"

\* conectar returned after get_profile_ansyc raised, with the account selected
C26_Witness ==
    /\ perfil_sync.res = "get raise"
    /\ perfil_sync.attempts = 1
    /\ call.retorno_conectar = "True"
    /\ call.ret

\* C27: login_iqoption stores a balance under account type T only if T was the type
\* active at the broker when that balance was read
C27_StoredUnderActiveType ==
    (gravado.k = "stored" /\ gravado.lido_em # "none") =>
        TIPO_CONTA(gravado.coluna) = gravado.lido_em

\* C28: conectar returns True exactly when api.connect() reported success, even if
\* the account selection or the balance refresh failed, and when api.connect()
\* reported failure it issues no change_balance, get_balance or get_balance_mode
C28_ReturnIsConnectStatus ==
    ConectarReturned =>
        /\ (call.retorno_conectar = "True") <=> ~ConectarFailed
        /\ ConectarFailed =>
              /\ call.retorno_conectar = "False"
              /\ call.requests = 0 /\ call.refreshes = 0
              /\ call.mode_read = "none" /\ lido_em = "none"

\* conectar returned True although change_balance was refused and the balance
\* refresh that followed raised
C28_Witness ==
    /\ ConectarReturned
    /\ call.retorno_conectar = "True"
    /\ call.chg = "reject" /\ ~call.ret
    /\ lido_em = "none"
    /\ login.saldo = "0.0"

\* C29: the dispatch flag is True while on_message runs and False once it has
\* returned, on every exit path: null, undecodable, empty, non-JSON, a valid frame,
\* a frame whose handler raises an Exception
C29_FlagReleasedOnEveryExit ==
    /\ pc[1] \in {"checks", "handlers", "release"} => ssl_Mutual_exclusion
    /\ pc[1] \in {"idle", "returned"} => (~ssl_Mutual_exclusion /\ ~escaped[1])

\* on_message returned from a profile frame whose handler raised
C29_Witness ==
    /\ pc[1] = "returned"
    /\ applied[1] = <<"raised">>
    /\ Parsed(msg[1]).frame.name = "profile"
    /\ ~ssl_Mutual_exclusion

\* a handler raised while the receiver's frame was being processed
Aborted(r) == \E i \in 1..Len(applied[r]) : applied[r][i] = "raised"

\* C30: a handler that raises aborts its frame only: on_message swallows the
\* exception, no handler after the failing one is applied to the frame, the effects
\* of the handlers before it stay, and every later frame is dispatched normally
C30_HandlerFailureAbortsFrameOnly ==
    pc[1] = "returned" =>
        /\ ~escaped[1]
        /\ Aborted(1) =>
              /\ applied[1][Len(applied[1])] = "raised"
              /\ Cardinality({i \in 1..Len(applied[1]) : applied[1][i] = "raised"}) = 1
              /\ State = IF Len(applied[1]) > 1
                         THEN FrameEffect(Parsed(msg[1]).frame, pre[1], maxdict)
                         ELSE pre[1]
        /\ (houve_falha /\ ~Aborted(1) /\ ~Malformed(msg[1])) =>
              State = FrameEffect(Parsed(msg[1]).frame, pre[1], maxdict)

\* the second order_placed_temp call raised after the first had stored the order id
C30_Witness ==
    /\ pc[1] = "returned"
    /\ applied[1] = <<"order_placed_temp", "raised">>
    /\ api.buy_order_id = "o7"
    /\ pre[1].api.buy_order_id = "None"

=============================================================================
